---- MODULE Spec2Model ----
(***************************************************************************)
(* Content processing pipeline of cra.orcwg.org: base parser, status       *)
(* normalisation, validation partition, FAQ/guidance cross-referencing,    *)
(* FAQ enhancer and the main pipeline of src/_data/orcwgImport.js.         *)
(*                                                                         *)
(* JavaScript values are tagged records [t, v]; a JavaScript string is a   *)
(* sequence of tokens (a token is one character, or one literal chunk such *)
(* as ".md" or "/faq/" that the code only ever handles as a whole); a      *)
(* JavaScript object is a function from its own keys to values.            *)
(***************************************************************************)
EXTENDS Naturals, Integers, Sequences, FiniteSets, TLC

VARIABLES pc, args, result,
          disk, schemas, validationLog,
          filesByType, parsedItemsByType, postProcessedItems,
          validItemsByType, invalidItemsByType, stats, finalData,
          cursor, baseItems

\* the state of the pipeline of src/_data/orcwgImport.js
pipelineVars == <<disk, schemas, validationLog, filesByType, parsedItemsByType,
                  postProcessedItems, validItemsByType, invalidItemsByType,
                  stats, finalData, cursor, baseItems>>

vars == <<pc, args, result, pipelineVars>>

\* the pipeline is not running: a single function is applied to its input
PipelineIdle ==
  /\ disk = [dirs |-> {}, files |-> <<>>]
  /\ schemas = [none |-> TRUE]
  /\ validationLog = [exists |-> FALSE, entries |-> <<>>]
  /\ filesByType = [notYet |-> TRUE]
  /\ parsedItemsByType = [notYet |-> TRUE]
  /\ postProcessedItems = [notYet |-> TRUE]
  /\ validItemsByType = [notYet |-> TRUE]
  /\ invalidItemsByType = [notYet |-> TRUE]
  /\ stats = [notYet |-> TRUE]
  /\ finalData = [notYet |-> TRUE]
  /\ cursor = 0
  /\ baseItems = [notYet |-> TRUE]

\* ------------------------------------------------------------------------
\* Bounds of the model
\* ------------------------------------------------------------------------
MaxStatusLen == 4
MaxNameLen == 3
MaxBatch == 3
MaxBodyLen == 8
MaxFaqs == 3
MaxFiles == 2
MaxRefs == 3

\* ------------------------------------------------------------------------
\* JavaScript values
\* ------------------------------------------------------------------------
Str(s) == [t |-> "string", v |-> s]
Null == [t |-> "null", v |-> <<>>]
Undefined == [t |-> "undefined", v |-> <<>>]
Bool(b) == [t |-> "boolean", v |-> b]
Arr(a) == [t |-> "array", v |-> a]

\* the outcome of a call that ended in an uncaught exception
Thrown == [threw |-> "TypeError"]

\* JavaScript truthiness of a value
Truthy(val) ==
  CASE val.t = "undefined" -> FALSE
    [] val.t = "null" -> FALSE
    [] val.t = "string" -> val.v # <<>>
    [] val.t = "boolean" -> val.v
    [] val.t = "number" -> "v" \in DOMAIN val /\ val.v # 0
    [] OTHER -> TRUE

\* a || b
JsOr(a, b) == IF Truthy(a) THEN a ELSE b

\* obj[key], undefined when obj has no such key
Get(obj, key) == IF key \in DOMAIN obj THEN obj[key] ELSE Undefined

\* { ...a, ...b }
Spread(a, b) ==
  [k \in (DOMAIN a) \cup (DOMAIN b) |-> IF k \in DOMAIN b THEN b[k] ELSE a[k]]

\* const { key, ...rest } = obj
Without(obj, key) == [k \in (DOMAIN obj) \ {key} |-> obj[k]]

EmptyObject == [k \in {} |-> Null]

\* an object with the keys of `keys` for which `val` gives a defined value
Obj(keys, val) == [k \in {x \in keys : val[x] # Undefined} |-> val[k]]

\* ------------------------------------------------------------------------
\* JavaScript strings
\* ------------------------------------------------------------------------
IsSpace(c) == c \in {" ", "\n"}

RECURSIVE TrimStart(_)
TrimStart(s) ==
  IF s # <<>> /\ IsSpace(Head(s)) THEN TrimStart(Tail(s)) ELSE s

RECURSIVE TrimEnd(_)
TrimEnd(s) ==
  IF s # <<>> /\ IsSpace(s[Len(s)]) THEN TrimEnd(SubSeq(s, 1, Len(s) - 1)) ELSE s

\* String.prototype.trim
Trim(s) == TrimEnd(TrimStart(s))

\* s.substring(i) for a 0-based index i
Substring(s, i) == SubSeq(s, i + 1, Len(s))

\* does pat occur in s at the 0-based index i
OccursAt(s, pat, i) ==
  /\ i + Len(pat) <= Len(s)
  /\ \A j \in 1..Len(pat) : s[i + j] = pat[j]

\* s.indexOf(pat): the 0-based index of the first occurrence, -1 when none
IndexOf(s, pat) ==
  LET hits == {i \in 0..Len(s) : OccursAt(s, pat, i)}
  IN IF hits = {} THEN 0 - 1 ELSE CHOOSE i \in hits : \A j \in hits : i <= j

\* s.includes(pat)
Includes(s, pat) == IndexOf(s, pat) >= 0

\* s.replace(pat, ''): only the first occurrence of the string pat is removed
ReplaceFirst(s, pat) ==
  LET i == IndexOf(s, pat)
  IN IF i < 0 THEN s ELSE SubSeq(s, 1, i) \o SubSeq(s, i + Len(pat) + 1, Len(s))

LowerToken(c) ==
  CASE c = "Draft" -> "draft"
    [] c = "Pending" -> "pending"
    [] c = "Guidance" -> "guidance"
    [] OTHER -> c

\* String.prototype.toLowerCase
ToLowerCase(s) == [i \in 1..Len(s) |-> LowerToken(s[i])]

\* the length of the run of whitespace that starts at the 1-based index i
RECURSIVE SpaceRun(_, _)
SpaceRun(s, i) ==
  IF i <= Len(s) /\ IsSpace(s[i]) THEN 1 + SpaceRun(s, i + 1) ELSE 0

\* s.replace(/<emoji>\s*/, ''): the first emoji and the whitespace after it
ReplaceEmoji(s, emoji) ==
  LET i == IndexOf(s, <<emoji>>)
  IN IF i < 0 THEN s
     ELSE SubSeq(s, 1, i) \o SubSeq(s, i + 2 + SpaceRun(s, i + 2), Len(s))

\* every string of at most n tokens of S
RECURSIVE SeqsUpTo(_, _)
SeqsUpTo(S, n) ==
  IF n = 0 THEN {<<>>}
  ELSE LET shorter == SeqsUpTo(S, n - 1)
       IN shorter \cup {Append(s, c) : s \in {x \in shorter : Len(x) = n - 1}, c \in S}

StopSign == "stop-sign"
WarningSign == "warning-sign"

\* ------------------------------------------------------------------------
\* src/lib/contentProcessor.js: normalizeStatus
\* ------------------------------------------------------------------------
DRAFT == <<"draft">>
PENDING_GUIDANCE == <<"pending", "-", "guidance">>
APPROVED == <<"approved">>

\* the status text after the emoji are stripped (line 173)
CleanStatusText(s) == Trim(ReplaceEmoji(ReplaceEmoji(s, StopSign), WarningSign))

\* ClassifyStatus with the two tests in the opposite order
ClassifyStatus_PendingFirst(s) ==
  LET lowered == ToLowerCase(CleanStatusText(s))
  IN IF Includes(lowered, <<"pending", " ", "guidance">>) THEN PENDING_GUIDANCE
     ELSE IF Includes(lowered, <<"draft">>) THEN DRAFT
     ELSE APPROVED

\* the classification of a declared status text (lines 173-180)
ClassifyStatus(s) ==
  LET lowered == ToLowerCase(CleanStatusText(s))
  IN IF Includes(lowered, <<"draft">>) THEN DRAFT
     ELSE IF Includes(lowered, <<"pending", " ", "guidance">>) THEN PENDING_GUIDANCE
     ELSE APPROVED

\* the keys under which normalizeStatus looks for a guidance reference
StatusGuidanceKeys == {"guidance-id"}

HasGuidanceKey(item, keys) == \E k \in keys : Truthy(Get(item, k))

\* normalizeStatus that takes an undeclared status for approved
normalizeStatus_DefaultApproved(item) ==
  LET declared == JsOr(Get(item, "Status"), Get(item, "status"))
      guided == HasGuidanceKey(item, StatusGuidanceKeys)
      status == IF guided THEN Str(PENDING_GUIDANCE)
                ELSE IF Truthy(declared) THEN Str(ClassifyStatus(declared.v))
                ELSE Str(APPROVED)
  IN IF ~guided /\ Truthy(declared) /\ declared.t # "string"
     THEN Thrown
     ELSE Spread(Without(item, "Status"), [status |-> status])

normalizeStatus(item) ==
  LET declared == JsOr(Get(item, "Status"), Get(item, "status"))
      guided == HasGuidanceKey(item, StatusGuidanceKeys)
      status == IF guided THEN Str(PENDING_GUIDANCE)
                ELSE IF Truthy(declared) THEN Str(ClassifyStatus(declared.v))
                ELSE Null
  IN IF ~guided /\ Truthy(declared) /\ declared.t # "string"
     THEN Thrown     \* status.replace is not a function
     ELSE Spread(Without(item, "Status"), [status |-> status])

\* ------------------------------------------------------------------------
\* src/lib/contentProcessor.js: createUrl, parseBaseMarkdown
\* ------------------------------------------------------------------------
MdSuffix == <<".md">>

createUrl(contentType, category, filename) ==
  LET cleanFilename == ReplaceFirst(filename, MdSuffix)
  IN IF contentType = "guidance"
       THEN <<"/pending-guidance/">> \o cleanFilename \o <<"/">>
     ELSE IF contentType = "lists"
       THEN <<"/lists/">> \o cleanFilename \o <<"/">>
     ELSE <<"/faq/">> \o category \o <<"/">> \o cleanFilename \o <<"/">>

\* the common fields of a base item (lines 150-155)
BaseFields(content, filename, category, contentType) ==
  [filename |-> Str(filename),
   category |-> Str(category),
   contentType |-> Str(<<contentType>>),
   rawMarkdown |-> Str(content),
   url |-> Str(createUrl(contentType, category, filename))]

\* parseBaseMarkdown that skips a file only when it could not be read
parseBaseMarkdown_NoGate(fileContent, filename, category, contentType) ==
  IF fileContent = Null THEN Null
  ELSE Spread(BaseFields(fileContent.content, filename, category, contentType),
              IF fileContent.frontmatter = Undefined THEN EmptyObject
              ELSE fileContent.frontmatter)

\* fileContent is null (the read failed) or { frontmatter, content }
parseBaseMarkdown(fileContent, filename, category, contentType) ==
  IF fileContent = Null THEN Null
  ELSE IF fileContent.frontmatter = Undefined
          \/ DOMAIN fileContent.frontmatter = {} THEN Null
  ELSE Spread(BaseFields(fileContent.content, filename, category, contentType),
              fileContent.frontmatter)

\* ------------------------------------------------------------------------
\* Specification SpecBase: createUrl and parseBaseMarkdown applied to one
\* (fileContent, filename, category, contentType)
\* ------------------------------------------------------------------------
\* the type names of the two CONTENT_TYPES configurations
ContentTypeNames == {"faq", "guidance", "list", "lists"}

Filenames == SeqsUpTo({"a", "-", ".md"}, MaxNameLen) \ {<<>>}

Categories == {<<"root">>, <<"cat">>}

\* every object whose keys are among `keys`, each with its value from val
ObjectsOver(keys, val) == {[k \in K |-> val[k]] : K \in SUBSET keys}

BaseFrontmatters ==
  ObjectsOver({"title", "status", "url", "category"},
              [title |-> Str(<<"T">>), status |-> Str(<<"Draft">>),
               url |-> Str(<<"/x/">>), category |-> Str(<<"x">>)])

BaseFileContents ==
  {Null} \cup {[frontmatter |-> fm, content |-> <<"#", " ", "a">>] :
                 fm \in BaseFrontmatters \cup {Undefined}}

InitBase ==
  /\ pc \in {"createUrl", "parseBaseMarkdown"}
  /\ args \in [fileContent : BaseFileContents, filename : Filenames,
               category : Categories, contentType : ContentTypeNames]
  /\ pc = "createUrl" => args.fileContent = Null
  /\ result = <<>>
  /\ PipelineIdle

CallCreateUrl ==
  /\ pc = "createUrl"
  /\ result = <<>>
  /\ result' = <<createUrl(args.contentType, args.category, args.filename)>>
  /\ UNCHANGED <<pc, args, pipelineVars>>

CallParseBaseMarkdown ==
  /\ pc = "parseBaseMarkdown"
  /\ result = <<>>
  /\ result' = <<parseBaseMarkdown(args.fileContent, args.filename,
                                   args.category, args.contentType)>>
  /\ UNCHANGED <<pc, args, pipelineVars>>

NextBase == CallCreateUrl \/ CallParseBaseMarkdown

SpecBase == InitBase /\ [][NextBase]_vars

\* ------------------------------------------------------------------------
\* src/lib/contentProcessor.js: validateItem, partitionByValidation
\* A validator is given by what it returns for the item at each index (its
\* context argument names the index): validator[i] is { valid, errors }.
\* ------------------------------------------------------------------------
\* validationResult.errors || []
ErrorsOrEmpty(errors) == IF Truthy(errors) THEN errors.v ELSE <<>>

validateItem(item, validationResult) ==
  [item |-> normalizeStatus(item),
   isValid |-> validationResult.valid,
   errors |-> ErrorsOrEmpty(validationResult.errors)]

IsValidResult(r) == r.isValid
IsInvalidResult(r) == ~r.isValid

\* partitionByValidation that keeps every item in the valid list
partitionByValidation_NoFilter(items, validator) ==
  LET results == [i \in 1..Len(items) |-> validateItem(items[i], validator[i])]
      failed == SelectSeq(results, IsInvalidResult)
  IN IF \E i \in 1..Len(items) : results[i].item = Thrown THEN Thrown
     ELSE [valid |-> [i \in 1..Len(results) |-> results[i].item],
           invalid |-> [i \in 1..Len(failed) |->
                          [item |-> failed[i].item, errors |-> failed[i].errors,
                           index |-> i - 1]]]

partitionByValidation(items, validator) ==
  LET results == [i \in 1..Len(items) |-> validateItem(items[i], validator[i])]
      passed == SelectSeq(results, IsValidResult)
      failed == SelectSeq(results, IsInvalidResult)
  IN IF \E i \in 1..Len(items) : results[i].item = Thrown THEN Thrown
     ELSE [valid |-> [i \in 1..Len(passed) |-> passed[i].item],
           \* index is the position in the filtered array (line 227)
           invalid |-> [i \in 1..Len(failed) |->
                          [item |-> failed[i].item, errors |-> failed[i].errors,
                           index |-> i - 1]]]

\* ------------------------------------------------------------------------
\* Specification SpecPartition: partitionByValidation applied to a batch
\* ------------------------------------------------------------------------
PartitionItems ==
  { [id |-> Str(<<"1">>), status |-> Str(<<"Draft">>)],
    [id |-> Str(<<"2">>)],
    [id |-> Str(<<"3">>), Status |-> Str(<<"ok">>)],
    [id |-> Str(<<"4">>), status |-> Bool(TRUE)] }

\* what a validator may return: validateData returns the first or the
\* second, an injected validator any of them
ValidationResults ==
  { [valid |-> TRUE, errors |-> Arr(<<>>)],
    [valid |-> FALSE, errors |-> Arr(<<"required">>)],
    [valid |-> FALSE, errors |-> Arr(<<>>)],
    [valid |-> FALSE, errors |-> Undefined] }

Batches == UNION {[1..n -> PartitionItems] : n \in 0..MaxBatch}

InitPartition ==
  /\ pc = "partitionByValidation"
  /\ \E items \in Batches :
       args \in {[items |-> items, validator |-> v] :
                   v \in [1..Len(items) -> ValidationResults]}
  /\ result = <<>>
  /\ PipelineIdle

CallPartitionByValidation ==
  /\ pc = "partitionByValidation"
  /\ result = <<>>
  /\ result' = <<partitionByValidation(args.items, args.validator)>>
  /\ UNCHANGED <<pc, args, pipelineVars>>

NextPartition == CallPartitionByValidation

SpecPartition == InitPartition /\ [][NextPartition]_vars

\* ------------------------------------------------------------------------
\* content.match(/^#\s+(.+)$/m), as used by every specialised parser
\* ------------------------------------------------------------------------
\* the 1-based index of the last token of the line that holds index p
RECURSIVE EndOfLine(_, _)
EndOfLine(s, p) ==
  IF p < Len(s) /\ s[p + 1] # "\n" THEN EndOfLine(s, p + 1) ELSE p

\* the 1-based indexes at which (.+) can start when the regex is tried at
\* the 1-based index i: after one or more whitespace tokens, on a token
\* that is no line break
GroupStarts(s, i) ==
  {p \in (i + 2)..(i + 1 + SpaceRun(s, i + 1)) : p <= Len(s) /\ s[p] # "\n"}

\* the regex matches with its ^ at the 1-based index i
HeadingMatchesAt(s, i) ==
  /\ i <= Len(s)
  /\ i = 1 \/ s[i - 1] = "\n"
  /\ s[i] = "#"
  /\ GroupStarts(s, i) # {}

\* the match object: found, index (0-based), text (match[0]), group (match[1]);
\* \s+ is greedy, so the group starts as late as it can
HeadingMatch(s) ==
  LET starts == {i \in 1..Len(s) : HeadingMatchesAt(s, i)}
  IN IF starts = {} THEN [found |-> FALSE, index |-> 0, text |-> <<>>, group |-> <<>>]
     ELSE LET i == CHOOSE x \in starts : \A y \in starts : x <= y
              p == CHOOSE x \in GroupStarts(s, i) : \A y \in GroupStarts(s, i) : y <= x
              e == EndOfLine(s, p)
          IN [found |-> TRUE, index |-> i - 1,
              text |-> SubSeq(s, i, e), group |-> SubSeq(s, p, e)]

\* ------------------------------------------------------------------------
\* lib/parsers/faq.js: extractQuestion, extractAnswer, enhanceFaqItem,
\* postProcessFaq
\* ------------------------------------------------------------------------
extractQuestion(content) ==
  LET titleMatch == HeadingMatch(content)
  IN IF titleMatch.found THEN Str(titleMatch.group) ELSE Null

\* the body is cut after the first occurrence of the heading's text
extractAnswer(content, titleMatch) ==
  LET answer == IF titleMatch.found
                  THEN Trim(Substring(content,
                              IndexOf(content, titleMatch.text) + Len(titleMatch.text)))
                ELSE Trim(content)
  IN IF answer = <<>> THEN Null ELSE Str(answer)

enhanceFaqItem(baseItem) ==
  IF Get(baseItem, "rawMarkdown").t # "string" THEN Thrown
  ELSE LET raw == baseItem.rawMarkdown.v
           question == extractQuestion(raw)
           answer == extractAnswer(raw, HeadingMatch(raw))
       IN Spread(Spread(baseItem, [question |-> question]),
                 IF answer # Null THEN [answer |-> answer] ELSE EmptyObject)

GithubEditUrl(faq) ==
  <<"https://github.com/orcwg/cra-hub/edit/main/faq/">>
    \o Get(faq, "category").v \o <<"/">> \o Get(faq, "filename").v

\* postProcessFaqItem that computes the url again from category and filename
postProcessFaqItem_RecomputedUrl(faq) ==
  LET guidanceKey == Get(faq, "guidance-id")
  IN Spread(Spread(faq, IF Truthy(guidanceKey) THEN [guidanceKey |-> guidanceKey]
                        ELSE EmptyObject),
            [githubEditUrl |-> Str(GithubEditUrl(faq)),
             url |-> Str(createUrl("faq", Get(faq, "category").v, Get(faq, "filename").v))])

postProcessFaqItem(faq) ==
  LET guidanceKey == Get(faq, "guidance-id")
  IN Spread(Spread(faq, IF Truthy(guidanceKey) THEN [guidanceKey |-> guidanceKey]
                        ELSE EmptyObject),
            [githubEditUrl |-> Str(GithubEditUrl(faq))])

postProcessFaq(faqItems, allParsedData) ==
  [i \in 1..Len(faqItems) |-> postProcessFaqItem(faqItems[i])]

\* ------------------------------------------------------------------------
\* Specification SpecFaq: enhanceFaqItem applied to one base item
\* ------------------------------------------------------------------------
BodyAlphabet == {"#", " ", "\n", "a"}

Bodies == SeqsUpTo(BodyAlphabet, MaxBodyLen)

InitFaq ==
  /\ pc = "enhanceFaqItem"
  /\ args \in {[baseItem |-> [filename |-> Str(<<"test", ".md">>),
                              category |-> Str(<<"maintainers">>),
                              rawMarkdown |-> Str(b),
                              status |-> Str(<<"draft">>)]] : b \in Bodies}
  /\ result = <<>>
  /\ PipelineIdle

CallEnhanceFaqItem ==
  /\ pc = "enhanceFaqItem"
  /\ result = <<>>
  /\ result' = <<enhanceFaqItem(args.baseItem)>>
  /\ UNCHANGED <<pc, args, pipelineVars>>

NextFaq == CallEnhanceFaqItem

SpecFaq == InitFaq /\ [][NextFaq]_vars

\* ------------------------------------------------------------------------
\* src/lib/contentProcessor.js: extractGuidanceTitle, findRelatedFaqs,
\* enrichGuidanceWithFaqs
\* ------------------------------------------------------------------------
UpperToken(c) ==
  CASE c = "a" -> "A"
    [] c = "g" -> "G"
    [] c = "b" -> "B"
    [] c = "c" -> "C"
    [] c = "d" -> "D"
    [] c = "h" -> "H"
    [] c = "x" -> "X"
    [] c = "root" -> "Root"
    [] c = "pending" -> "Pending"
    [] c = "guidance" -> "Guidance"
    [] c = ".md" -> ".Md"
    [] OTHER -> c

\* .replace(/-/g, ' ').replace(/\b\w/g, l => l.toUpperCase())
TitleCase(s) ==
  [i \in 1..Len(s) |->
     IF s[i] = "-" THEN " "
     ELSE IF i = 1 \/ s[i - 1] \in {"-", " "} \/ s[i] = ".md" THEN UpperToken(s[i])
     ELSE s[i]]

\* the title derived from a file name (lines 278-281)
HumanizeFilename(filename) == TitleCase(ReplaceFirst(filename, MdSuffix))

extractGuidanceTitle(guidance) ==
  LET declared == JsOr(Get(guidance, "title"), Get(guidance, "question"))
      content == Get(guidance, "content")
      fromContent ==
        IF ~Truthy(declared) /\ Truthy(content) /\ content.t = "string"
             /\ HeadingMatch(content.v).found
        THEN Str(HeadingMatch(content.v).group)
        ELSE declared
  IN IF Truthy(fromContent) THEN fromContent
     ELSE Str(HumanizeFilename(guidance.filename.v))

\* a.localeCompare(b) < 0 on the question texts of the model
TokenRank(c) == CASE c = "A" -> 1 [] c = "B" -> 2 [] OTHER -> 3

RECURSIVE LocaleLess(_, _)
LocaleLess(a, b) ==
  IF b = <<>> THEN FALSE
  ELSE IF a = <<>> THEN TRUE
  ELSE IF TokenRank(Head(a)) # TokenRank(Head(b)) THEN TokenRank(Head(a)) < TokenRank(Head(b))
  ELSE LocaleLess(Tail(a), Tail(b))

\* Array.prototype.sort with the comparator of line 305 on entries whose
\* questions are all strings: a stable sort, by insertion
RECURSIVE InsertEntry(_, _)
InsertEntry(sorted, e) ==
  IF sorted = <<>> THEN <<e>>
  ELSE IF LocaleLess(e.question.v, sorted[Len(sorted)].question.v)
    THEN Append(InsertEntry(SubSeq(sorted, 1, Len(sorted) - 1), e), sorted[Len(sorted)])
  ELSE Append(sorted, e)

RECURSIVE SortByQuestion(_)
SortByQuestion(entries) ==
  IF entries = <<>> THEN <<>>
  ELSE InsertEntry(SortByQuestion(SubSeq(entries, 1, Len(entries) - 1)),
                   entries[Len(entries)])

\* every arrangement of the entries of a sequence
Arrangements(entries) ==
  {[i \in 1..Len(entries) |-> entries[f[i]]] :
     f \in {g \in [1..Len(entries) -> 1..Len(entries)] :
              \A i, j \in 1..Len(entries) : i # j => g[i] # g[j]}}

\* the outcomes of .sort((a, b) => a.question.localeCompare(b.question)):
\* with fewer than two entries the comparator is never called; a question
\* that is no string throws when it is the comparator's first argument and
\* is compared as the text "null"/"undefined" when it is the second, and
\* which of the two it is depends on the engine
SortOutcomes(entries) ==
  IF Len(entries) < 2 THEN {Arr(entries)}
  ELSE IF \A i \in 1..Len(entries) : entries[i].question.t = "string"
    THEN {Arr(SortByQuestion(entries))}
  ELSE {Thrown} \cup
       (IF \E i \in 1..Len(entries) : entries[i].question.t = "string"
        THEN {Arr(a) : a \in Arrangements(entries)} ELSE {})

\* the guidance key of a guidance item (line 294)
GuidanceKeyOf(guidance) == ReplaceFirst(guidance.filename.v, MdSuffix)

FaqEntry(faq) == [question |-> Get(faq, "question"), url |-> Get(faq, "url")]

\* the related entries before they are sorted (lines 296-304)
RECURSIVE RelatedEntries(_, _)
RelatedEntries(guidance, faqItems) ==
  IF faqItems = <<>> THEN <<>>
  ELSE LET faq == Head(faqItems)
           rest == RelatedEntries(guidance, Tail(faqItems))
       IN IF Get(faq, "guidance-id") = Str(GuidanceKeyOf(guidance))
          THEN <<FaqEntry(faq)>> \o rest ELSE rest

\* the related entries when every FAQ that has some reference is kept
RECURSIVE RelatedEntries_AnyReference(_, _)
RelatedEntries_AnyReference(guidance, faqItems) ==
  IF faqItems = <<>> THEN <<>>
  ELSE LET faq == Head(faqItems)
           rest == RelatedEntries_AnyReference(guidance, Tail(faqItems))
       IN IF Truthy(Get(faq, "guidance-id"))
          THEN <<FaqEntry(faq)>> \o rest ELSE rest

\* findRelatedFaqs that lists every FAQ with a reference, whatever its key
findRelatedFaqs_AnyReference(guidance, faqItems) ==
  SortOutcomes(RelatedEntries_AnyReference(guidance, faqItems))

\* the possible results of findRelatedFaqs
findRelatedFaqs(guidance, faqItems) ==
  SortOutcomes(RelatedEntries(guidance, faqItems))

\* the possible results of enrichGuidanceWithFaqs: one choice of sort
\* outcome for each guidance item; Thrown when one of the sorts throws
enrichGuidanceWithFaqs(guidanceItems, faqItems) ==
  LET n == Len(guidanceItems)
      choices == {c \in [1..n -> UNION {findRelatedFaqs(guidanceItems[i], faqItems) : i \in 1..n}] :
                    \A i \in 1..n : c[i] \in findRelatedFaqs(guidanceItems[i], faqItems)}
  IN {IF \E i \in 1..n : c[i] = Thrown THEN Thrown
      ELSE Arr([i \in 1..n |->
                  Spread(guidanceItems[i],
                         [title |-> extractGuidanceTitle(guidanceItems[i]),
                          relatedFaqs |-> c[i]])]) : c \in choices}

\* ------------------------------------------------------------------------
\* Specification SpecEnrich: enrichGuidanceWithFaqs applied to guidance
\* items and FAQ items
\* ------------------------------------------------------------------------
EnrichGuidanceItems ==
  { [filename |-> Str(<<"g", ".md">>), content |-> Str(<<"#", " ", "a">>)],
    [filename |-> Str(<<"h", ".md", "x", ".md">>), title |-> Str(<<"T">>)] }

EnrichFaqItems ==
  { Obj({"filename", "guidance-id", "question", "url"},
        [filename |-> Str(<<"f", ".md">>), question |-> qu[1], url |-> Str(<<"/faq/", qu[2], "/">>)]
          @@ ("guidance-id" :> g)) :
      g \in {Undefined, Str(<<"g">>), Str(<<"h", "x", ".md">>)},
      qu \in {<<Str(<<"A">>), "1">>, <<Str(<<"A">>), "2">>, <<Str(<<"B">>), "1">>, <<Null, "1">>} }

InitEnrich ==
  /\ pc = "enrichGuidanceWithFaqs"
  /\ args \in [guidanceItems : UNION {[1..n -> EnrichGuidanceItems] : n \in 1..2},
               faqItems : UNION {[1..n -> EnrichFaqItems] : n \in 0..MaxFaqs}]
  /\ result = <<>>
  /\ PipelineIdle

CallEnrichGuidanceWithFaqs ==
  /\ pc = "enrichGuidanceWithFaqs"
  /\ result = <<>>
  /\ \E out \in enrichGuidanceWithFaqs(args.guidanceItems, args.faqItems) :
       result' = <<out>>
  /\ UNCHANGED <<pc, args, pipelineVars>>

NextEnrich == CallEnrichGuidanceWithFaqs

SpecEnrich == InitEnrich /\ [][NextEnrich]_vars

\* ------------------------------------------------------------------------
\* Specification SpecStatus: normalizeStatus applied to an item, and then
\* to its own result
\* ------------------------------------------------------------------------
StatusAlphabet == {"Draft", "Pending", " ", "Guidance", WarningSign, "ok"}

StatusTexts == SeqsUpTo(StatusAlphabet, MaxStatusLen)

StatusItems ==
  { Obj({"status", "Status", "guidance-id", "pending-guidance", "title"},
        [status |-> s, Status |-> S, title |-> Str(<<"t">>)]
          @@ ("guidance-id" :> g) @@ ("pending-guidance" :> p)) :
      s \in {Undefined, Bool(TRUE)} \cup {Str(x) : x \in StatusTexts},
      S \in {Undefined, Str(<<>>), Str(<<"Draft">>), Str(<<"ok">>)},
      g \in {Undefined, Str(<<>>), Str(<<"g">>)},
      p \in {Undefined, Str(<<"g">>)} }

InitStatus ==
  /\ pc = "normalizeStatus"
  /\ args \in {[item |-> i] : i \in StatusItems}
  /\ result = <<>>
  /\ PipelineIdle

\* result[n] is normalizeStatus applied n times to args.item
CallNormalizeStatus ==
  /\ pc = "normalizeStatus"
  /\ Len(result) < 2
  /\ LET x == IF result = <<>> THEN args.item ELSE result[Len(result)]
     IN /\ x # Thrown
        /\ result' = Append(result, normalizeStatus(x))
  /\ UNCHANGED <<pc, args, pipelineVars>>

NextStatus == CallNormalizeStatus

SpecStatus == InitStatus /\ [][NextStatus]_vars

\* ------------------------------------------------------------------------
\* src/lib/parsers/guidance.js and src/lib/parsers/list.js: the enhancers
\* of the guidance and list content types
\* ------------------------------------------------------------------------
Num(n) == [t |-> "number", v |-> n]

\* content.split('\n')
RECURSIVE SplitLines(_)
SplitLines(s) ==
  LET i == IndexOf(s, <<"\n">>)
  IN IF i < 0 THEN <<s>>
     ELSE <<SubSeq(s, 1, i)>> \o SplitLines(SubSeq(s, i + 2, Len(s)))

\* the number of leading # of a line
RECURSIVE LeadingHashes(_)
LeadingHashes(line) ==
  IF line # <<>> /\ Head(line) = "#" THEN 1 + LeadingHashes(Tail(line)) ELSE 0

\* line.match(/^#+\s*Guidance [Nn]eeded/i)
IsGuidanceNeededHeading(line) ==
  LET h == LeadingHashes(line)
      rest == TrimStart(SubSeq(line, h + 1, Len(line)))
  IN h > 0 /\ rest # <<>> /\ Head(rest) \in {"Guidance needed", "Guidance Needed"}

\* line.match(/^#+\s/)
IsSectionHeading(line) ==
  LET h == LeadingHashes(line)
  IN h > 0 /\ Len(line) > h /\ IsSpace(line[h + 1])

\* the loop of extractGuidanceSummary over the remaining lines
RECURSIVE GuidanceLines(_, _)
GuidanceLines(lines, isInGuidanceSection) ==
  IF lines = <<>> THEN <<>>
  ELSE LET line == Trim(Head(lines))
       IN IF IsGuidanceNeededHeading(line) THEN GuidanceLines(Tail(lines), TRUE)
          ELSE IF isInGuidanceSection /\ IsSectionHeading(line) THEN <<>>
          ELSE IF isInGuidanceSection /\ line # <<>>
            THEN <<line>> \o GuidanceLines(Tail(lines), isInGuidanceSection)
          ELSE GuidanceLines(Tail(lines), isInGuidanceSection)

\* lines.join(' ')
RECURSIVE JoinWithSpace(_)
JoinWithSpace(lines) ==
  IF lines = <<>> THEN <<>>
  ELSE IF Len(lines) = 1 THEN lines[1]
  ELSE lines[1] \o <<" ">> \o JoinWithSpace(Tail(lines))

\* .replace(/\s+/g, ' ')
RECURSIVE CollapseSpaces(_)
CollapseSpaces(s) ==
  IF s = <<>> THEN <<>>
  ELSE IF IsSpace(s[1])
    THEN <<" ">> \o CollapseSpaces(SubSeq(s, SpaceRun(s, 1) + 1, Len(s)))
  ELSE <<s[1]>> \o CollapseSpaces(Tail(s))

\* the text of the model carries no markdown markup: rendering it and
\* stripping the tags gives the text back, as the fallback does
extractGuidanceSummary(content) ==
  IF content = <<>> THEN <<>>
  ELSE Trim(CollapseSpaces(JoinWithSpace(GuidanceLines(SplitLines(content), FALSE))))

\* extractTitle of both parsers
extractTitle(content) ==
  IF HeadingMatch(content).found THEN Str(HeadingMatch(content).group) ELSE Null

\* title || baseItem.title || <the humanised file name>
ComputedTitle(baseItem) ==
  LET title == extractTitle(baseItem.rawMarkdown.v)
  IN IF Truthy(title) THEN title
     ELSE IF Truthy(Get(baseItem, "title")) THEN Get(baseItem, "title")
     ELSE Str(HumanizeFilename(baseItem.filename.v))

enhanceGuidanceItem(baseItem) ==
  Spread(baseItem,
         [title |-> ComputedTitle(baseItem),
          summary |-> Str(extractGuidanceSummary(baseItem.rawMarkdown.v))])

\* extractDescription of the list parser
extractDescription(content, titleMatch) ==
  IF titleMatch.found
  THEN Trim(SubSeq(content, IndexOf(content, titleMatch.text) + Len(titleMatch.text) + 1,
                   Len(content)))
  ELSE content

\* parseInt(order, 10) of an order that is a number or one digit
ParseInt(val) ==
  IF val.t = "number" THEN val
  ELSE IF val.t = "string" /\ val.v = <<"0">> THEN Num(0)
  ELSE IF val.t = "string" /\ val.v = <<"1">> THEN Num(1)
  ELSE IF val.t = "string" /\ val.v = <<"2">> THEN Num(2)
  ELSE [t |-> "number", nan |-> TRUE]

enhanceListItem(baseItem) ==
  LET raw == baseItem.rawMarkdown.v
      description == extractDescription(raw, HeadingMatch(raw))
  IN Spread(baseItem,
            [title |-> ComputedTitle(baseItem),
             description |-> Str(IF description # <<>> THEN description ELSE raw),
             order |-> IF Truthy(Get(baseItem, "order"))
                       THEN ParseInt(Get(baseItem, "order")) ELSE Num(999),
             faqs |-> JsOr(Get(baseItem, "faqs"), Arr(<<>>))])

postProcessList(listItems, allParsedData) == listItems

\* ------------------------------------------------------------------------
\* src/lib/contentConfig.js: the configured content types and the parser
\* registry built from them
\* ------------------------------------------------------------------------
CONTENT_TYPE_NAMES == <<"faq", "guidance", "list">>

CacheFaqDir == "_cache/faq"
CategoryDir == "_cache/faq/c"
NestedDir == "_cache/faq/c/n"
PendingGuidanceDir == "_cache/faq/pending-guidance"
ListsDir == "src/_lists"

getSourceDirectory(typeName) ==
  CASE typeName = "faq" -> CacheFaqDir
    [] typeName = "guidance" -> PendingGuidanceDir
    [] typeName = "list" -> ListsDir

\* getEnhancer(type) applied to a base item
ApplyEnhancer(type, baseItem) ==
  CASE type = "faq" -> enhanceFaqItem(baseItem)
    [] type = "guidance" -> enhanceGuidanceItem(baseItem)
    [] type = "list" -> enhanceListItem(baseItem)

\* getPostProcessor(type) applied to the items of a type; the guidance
\* parser exports no post-processor
ApplyPostProcessor(type, items, allParsedData) ==
  CASE type = "faq" -> postProcessFaq(items, allParsedData)
    [] type = "guidance" -> items
    [] type = "list" -> postProcessList(items, allParsedData)

\* ------------------------------------------------------------------------
\* The file system read by the pipeline.  disk.dirs is the set of
\* directories that exist, disk.files the files in creation order; the
\* i-th file is named after i, so no two files share a path.
\* ------------------------------------------------------------------------
FileStems == <<"a", "b", "c", "d">>

FileName(i, md) == <<FileStems[i]>> \o (IF md THEN MdSuffix ELSE <<".txt">>)

\* the subdirectories of a directory: name and path
Subdirectories(dir) ==
  IF dir = CacheFaqDir
  THEN << [name |-> <<"c">>, path |-> CategoryDir],
          [name |-> <<"pending", "-", "guidance">>, path |-> PendingGuidanceDir] >>
  ELSE IF dir = CategoryDir
  THEN << [name |-> <<"n">>, path |-> NestedDir] >>
  ELSE <<>>

\* the directories of the tree below a directory, itself included
RECURSIVE TreeBelow(_)
TreeBelow(dir) ==
  {dir} \cup UNION {TreeBelow(Subdirectories(dir)[i].path) : i \in 1..Len(Subdirectories(dir))}

\* path.relative(from, dir), with a trailing separator
RECURSIVE RelativeDir(_, _)
RelativeDir(from, dir) ==
  IF from = dir THEN <<>>
  ELSE LET sub == CHOOSE e \in {Subdirectories(from)[i] : i \in 1..Len(Subdirectories(from))} :
                    dir \in TreeBelow(e.path)
       IN sub.name \o <<"/">> \o RelativeDir(sub.path, dir)

directoryExists(dirPath) == dirPath \in disk.dirs

\* the files of a directory, then its subdirectories
RECURSIVE FileEntries(_, _)
FileEntries(dirPath, i) ==
  IF i > Len(disk.files) THEN <<>>
  ELSE (IF disk.files[i].dir = dirPath
        THEN << [name |-> FileName(i, disk.files[i].md), isDirectory |-> FALSE,
                 path |-> dirPath] >>
        ELSE <<>>) \o FileEntries(dirPath, i + 1)

IsExistingDirectory(sub) == directoryExists(sub.path)

readDirectory(dirPath) ==
  FileEntries(dirPath, 1)
    \o [i \in 1..Len(SelectSeq(Subdirectories(dirPath), IsExistingDirectory)) |->
          [name |-> SelectSeq(Subdirectories(dirPath), IsExistingDirectory)[i].name,
           isDirectory |-> TRUE,
           path |-> SelectSeq(Subdirectories(dirPath), IsExistingDirectory)[i].path]]

\* entry.name.endsWith(".md")
EndsWith(s, suffix) ==
  Len(s) >= Len(suffix) /\ SubSeq(s, Len(s) - Len(suffix) + 1, Len(s)) = suffix

\* walkDirectory(dir, category) over the entries that are left
RECURSIVE WalkEntries(_, _, _, _)
WalkEntries(entries, typeDir, category, typeName) ==
  IF entries = <<>> THEN <<>>
  ELSE LET entry == Head(entries)
           here ==
             IF entry.isDirectory
             THEN IF directoryExists(entry.path)
                  THEN WalkEntries(readDirectory(entry.path), typeDir, entry.name, typeName)
                  ELSE <<>>
             ELSE IF EndsWith(entry.name, MdSuffix)
             THEN << [filename |-> entry.name,
                      fullPath |-> [dir |-> entry.path, name |-> entry.name],
                      category |-> IF category # <<>> THEN category ELSE <<"root">>,
                      relativePath |-> RelativeDir(typeDir, entry.path) \o entry.name,
                      contentType |-> typeName] >>
             ELSE <<>>
       IN here \o WalkEntries(Tail(entries), typeDir, category, typeName)

\* a walk that does not go into subdirectories
walkContentTypeDirectory_RootOnly(typeDir, typeName) ==
  IF ~directoryExists(typeDir) THEN <<>>
  ELSE WalkEntries(FileEntries(typeDir, 1), typeDir, <<>>, typeName)

walkContentTypeDirectory(typeDir, typeName) ==
  IF ~directoryExists(typeDir) THEN <<>>
  ELSE WalkEntries(readDirectory(typeDir), typeDir, <<>>, typeName)

\* readFileContentIO: null when the read or the front-matter parse fails
readFileContentIO(filePath) ==
  LET i == CHOOSE j \in 1..Len(disk.files) :
             /\ disk.files[j].dir = filePath.dir
             /\ FileName(j, disk.files[j].md) = filePath.name
      data == disk.files[i].data
  IN IF data = Null THEN Null
     ELSE [frontmatter |-> data.frontmatter, content |-> Trim(data.content)]

\* ------------------------------------------------------------------------
\* src/lib/validation.js: validateData.  schemas[type] is Null when no
\* schema was loaded for the type, else the keys the schema requires and
\* the keys it wants to be strings.
\* ------------------------------------------------------------------------
RECURSIVE RequiredErrors(_, _)
RequiredErrors(data, keys) ==
  IF keys = <<>> THEN <<>>
  ELSE (IF Head(keys) \notin DOMAIN data
        THEN << [path |-> "#/required", message |-> "must have required property",
                 property |-> Head(keys)] >>
        ELSE <<>>) \o RequiredErrors(data, Tail(keys))

RECURSIVE TypeErrors(_, _)
TypeErrors(data, keys) ==
  IF keys = <<>> THEN <<>>
  ELSE (IF Head(keys) \in DOMAIN data /\ data[Head(keys)].t # "string"
        THEN << [path |-> "/", message |-> "must be string",
                 property |-> Head(keys)] >>
        ELSE <<>>) \o TypeErrors(data, Tail(keys))

\* a validator that rejects the items of a type without schema
validateData_RejectWithoutSchema(data, schemaType) ==
  LET validator == schemas[schemaType]
      errors == RequiredErrors(data, validator.required) \o TypeErrors(data, validator.strings)
  IN IF validator = Null
     THEN [valid |-> FALSE,
           errors |-> Arr(<< [path |-> "#", message |-> "no schema", property |-> ""] >>)]
     ELSE IF errors # <<>> THEN [valid |-> FALSE, errors |-> Arr(errors)]
     ELSE [valid |-> TRUE, errors |-> Arr(<<>>)]

validateData(data, schemaType) ==
  LET validator == schemas[schemaType]
      errors == RequiredErrors(data, validator.required) \o TypeErrors(data, validator.strings)
  IN IF validator = Null THEN [valid |-> TRUE, errors |-> Arr(<<>>)]
     ELSE IF errors # <<>> THEN [valid |-> FALSE, errors |-> Arr(errors)]
     ELSE [valid |-> TRUE, errors |-> Arr(<<>>)]

\* what validateData returns for each item of a list, each item normalised
\* first as validateItem does
Verdicts(items, schemaType) ==
  [i \in 1..Len(items) |-> validateData(normalizeStatus(items[i]), schemaType)]

\* the position of the first item whose normalisation throws, 0 if none
FirstThrow(items) ==
  IF \E i \in 1..Len(items) : normalizeStatus(items[i]) = Thrown
  THEN CHOOSE i \in 1..Len(items) :
         /\ normalizeStatus(items[i]) = Thrown
         /\ \A j \in 1..(i - 1) : normalizeStatus(items[j]) # Thrown
  ELSE 0

\* the entries validateData appends to the log for the items before `upTo`
RECURSIVE LogEntries(_, _, _, _)
LogEntries(items, schemaType, i, upTo) ==
  IF i >= upTo THEN <<>>
  ELSE (IF ~Verdicts(items, schemaType)[i].valid
        THEN << [schemaType |-> schemaType, index |-> i - 1,
                 errors |-> Verdicts(items, schemaType)[i].errors.v] >>
        ELSE <<>>) \o LogEntries(items, schemaType, i + 1, upTo)

\* validateAndFilterWithLogging
validateAndFilterContent(items, schemaType) ==
  LET parts == partitionByValidation(items, Verdicts(items, schemaType))
  IN IF parts = Thrown THEN Thrown ELSE Arr(parts.valid)

\* ------------------------------------------------------------------------
\* src/_data/orcwgImport.js: the functions of the pipeline
\* ------------------------------------------------------------------------
IsItem(x) == x # Null

\* a batch that ends at the first file that yields no item
parseFilesToBaseItems_StopAtFailure(files, contentType) ==
  LET parsed == [i \in 1..Len(files) |->
                   parseBaseMarkdown(readFileContentIO(files[i].fullPath),
                                     files[i].filename, files[i].category, contentType)]
      failures == {i \in 1..Len(files) : parsed[i] = Null}
  IN IF failures = {} THEN parsed
     ELSE SubSeq(parsed, 1, (CHOOSE i \in failures : \A j \in failures : i <= j) - 1)

parseFilesToBaseItems(files, contentType) ==
  SelectSeq([i \in 1..Len(files) |->
               parseBaseMarkdown(readFileContentIO(files[i].fullPath),
                                 files[i].filename, files[i].category, contentType)],
            IsItem)

enhanceBaseItems(items, type) ==
  [i \in 1..Len(items) |-> ApplyEnhancer(type, items[i])]

\* validateAllContentTypes for one type (lines 108-117): the valid items
\* are fresh objects made by normalizeStatus, so none of the validated items
\* is a member of validSet
validateContentType(items, type) ==
  LET validItems == validateAndFilterContent(items, type).v
  IN [valid |-> validItems,
      invalid |-> IF Len(items) > Len(validItems) THEN items ELSE <<>>]

generateStats(files, parsed, valid, invalid) ==
  [types |-> CONTENT_TYPE_NAMES,
   version |-> "1.0.0",
   counts |-> [type \in DOMAIN files |->
                 [Files |-> Len(files[type]), Parsed |-> Len(parsed[type]),
                  Valid |-> Len(valid[type]), Invalid |-> Len(invalid[type])]]]

\* the position of a category in [...new Set(categories)].sort()
CategoryRank(category) ==
  CASE category = Str(<<"c">>) -> 1
    [] category = Str(<<"n">>) -> 2
    [] category = Str(<<"pending", "-", "guidance">>) -> 3
    [] category = Str(<<"root">>) -> 4
    [] OTHER -> 5

RECURSIVE SortedCategories(_)
SortedCategories(categories) ==
  IF categories = {} THEN <<>>
  ELSE LET first == CHOOSE c \in categories :
                      \A d \in categories : CategoryRank(c) <= CategoryRank(d)
       IN <<first>> \o SortedCategories(categories \ {first})

InCategory(faqItems, category) ==
  LET idx == {i \in 1..Len(faqItems) : Get(faqItems[i], "category") = category}
      pick[n \in 0..Len(faqItems)] ==
        IF n = 0 THEN <<>>
        ELSE IF n \in idx THEN Append(pick[n - 1], faqItems[n]) ELSE pick[n - 1]
  IN pick[Len(faqItems)]

generateFaqListData(faqItems) ==
  LET categories == SortedCategories({Get(faqItems[i], "category") : i \in 1..Len(faqItems)})
  IN [i \in 1..Len(categories) |->
        [category |-> categories[i],
         categoryTitle |-> Str(TitleCase(categories[i].v)),
         questions |-> InCategory(faqItems, categories[i]),
         hasQuestions |-> TRUE]]

buildFinalDataStructure(valid, statistics) ==
  LET withTypes == [k \in {"stats"} \cup DOMAIN valid |->
                      IF k = "stats" THEN statistics ELSE valid[k]]
  IN IF "faq" \in DOMAIN valid /\ Len(valid["faq"]) > 0
     THEN [k \in DOMAIN withTypes \cup {"faqListData"} |->
             IF k = "faqListData" THEN generateFaqListData(valid["faq"])
             ELSE withTypes[k]]
     ELSE withTypes

\* ------------------------------------------------------------------------
\* Specification Spec: the main pipeline of src/_data/orcwgImport.js, one
\* action per phase and, in the phases that loop over the content types,
\* per turn of the loop
\* ------------------------------------------------------------------------
\* what a markdown file may hold
EmptyFrontmatterFile ==
  [frontmatter |-> EmptyObject, content |-> <<"#", " ", "Q", "\n", "b">>]

DraftFile ==
  [frontmatter |-> [status |-> Str(<<"Draft">>)],
   content |-> <<"#", " ", "Q", "\n", "b", "\n">>]

GuidanceReferenceFile ==
  [frontmatter |-> ("guidance-id" :> Str(<<"a">>)) @@ [title |-> Str(<<"T">>)],
   content |-> <<"#", " ", "Q">>]

TitleOnlyFile == [frontmatter |-> [title |-> Str(<<"T">>)], content |-> <<"b">>]

UrlOverrideFile ==
  [frontmatter |-> [url |-> Str(<<"/x/">>), Status |-> Str(<<"ok">>)],
   content |-> <<"#", " ", "Q", "\n", "b">>]

BooleanStatusFile ==
  [frontmatter |-> [status |-> Bool(TRUE)], content |-> <<"#", " ", "Q">>]

\* the files a directory may hold; Null is a file that cannot be read
FileDatas(dir) ==
  CASE dir = CacheFaqDir ->
         {Null, EmptyFrontmatterFile, DraftFile, GuidanceReferenceFile,
          TitleOnlyFile, UrlOverrideFile, BooleanStatusFile}
    [] dir = CategoryDir -> {DraftFile, TitleOnlyFile}
    [] dir = NestedDir -> {EmptyFrontmatterFile}
    [] dir = PendingGuidanceDir -> {DraftFile, TitleOnlyFile, UrlOverrideFile}
    [] dir = ListsDir -> {Null, TitleOnlyFile, UrlOverrideFile}

PlacedFiles ==
  UNION {[dir : {dir}, md : {TRUE}, data : FileDatas(dir)] :
           dir \in {CacheFaqDir, CategoryDir, NestedDir, PendingGuidanceDir, ListsDir}}
    \cup {[dir |-> CacheFaqDir, md |-> FALSE, data |-> TitleOnlyFile]}

\* the directories that exist: all of them, all but the lists, all but
\* the pending guidance, or none when the cache was never fetched
DirectoryLayouts ==
  { {CacheFaqDir, CategoryDir, NestedDir, PendingGuidanceDir, ListsDir},
    {CacheFaqDir, CategoryDir, PendingGuidanceDir},
    {CacheFaqDir, CategoryDir, ListsDir},
    {ListsDir} }

Disks ==
  {d \in [dirs : DirectoryLayouts,
          files : UNION {[1..n -> PlacedFiles] : n \in 0..MaxFiles}] :
     \A i \in 1..Len(d.files) : d.files[i].dir \in d.dirs}

LoadedSchemas ==
  [faq |-> [required |-> <<"question">>, strings |-> <<"question", "answer">>],
   guidance |-> [required |-> <<"title">>, strings |-> <<"title">>],
   list |-> [required |-> <<"title", "faqs">>, strings |-> <<"title">>]]

\* every schema loaded, the FAQ schema missing, or no schema at all
SchemaSets ==
  { LoadedSchemas,
    [LoadedSchemas EXCEPT !["faq"] = Null],
    [type \in DOMAIN LoadedSchemas |-> Null] }

\* an entry of the log that none of the builds of this run has written
StaleEntry == [schemaType |-> "stale", index |-> 0, errors |-> <<>>]

NotYet == [notYet |-> TRUE]

\* obj[key] = value on an object under construction
Assign(obj, key, value) ==
  [k \in ((DOMAIN obj) \ {"notYet"}) \cup {key} |-> IF k = key THEN value ELSE obj[k]]

NumTypes == Len(CONTENT_TYPE_NAMES)

\* the type the loop of the current phase is at
CurrentType == CONTENT_TYPE_NAMES[cursor + 1]

Init ==
  /\ pc = "clearValidationLog"
  /\ args = <<>>
  /\ result = <<>>
  /\ disk \in Disks
  /\ schemas \in SchemaSets
  /\ validationLog \in {[exists |-> FALSE, entries |-> <<>>],
                        [exists |-> TRUE, entries |-> <<StaleEntry>>]}
  /\ filesByType = NotYet
  /\ parsedItemsByType = NotYet
  /\ postProcessedItems = NotYet
  /\ validItemsByType = NotYet
  /\ invalidItemsByType = NotYet
  /\ stats = NotYet
  /\ finalData = NotYet
  /\ cursor = 0
  /\ baseItems = NotYet

\* a loop that leaves after its first turn
Advance_AfterFirstType(nextPhase) ==
  pc' = nextPhase /\ cursor' = 0

\* the loop of the current phase has done one more type; after the last
\* type the pipeline goes on to the next phase
Advance(nextPhase) ==
  IF cursor + 1 = NumTypes
  THEN pc' = nextPhase /\ cursor' = 0
  ELSE pc' = pc /\ cursor' = cursor + 1

\* a build that leaves the log file as it finds it
ClearValidationLog_KeepLog ==
  /\ pc = "clearValidationLog"
  /\ pc' = "walkConfiguredDirectories"
  /\ UNCHANGED <<args, result, disk, schemas, validationLog, filesByType,
                 parsedItemsByType, postProcessedItems, validItemsByType,
                 invalidItemsByType, stats, finalData, cursor, baseItems>>

\* clearValidationLog(): the log file is removed when it exists
ClearValidationLog ==
  /\ pc = "clearValidationLog"
  /\ validationLog' = [exists |-> FALSE, entries |-> <<>>]
  /\ pc' = "walkConfiguredDirectories"
  /\ UNCHANGED <<args, result, disk, schemas, filesByType, parsedItemsByType,
                 postProcessedItems, validItemsByType, invalidItemsByType,
                 stats, finalData, cursor, baseItems>>

\* one turn of the loop of walkConfiguredDirectories
WalkContentTypeDirectory ==
  /\ pc = "walkConfiguredDirectories"
  /\ filesByType' =
       Assign(filesByType, CurrentType,
              walkContentTypeDirectory(getSourceDirectory(CurrentType), CurrentType))
  /\ Advance("parseAllContentTypes")
  /\ UNCHANGED <<args, result, disk, schemas, validationLog, parsedItemsByType,
                 postProcessedItems, validItemsByType, invalidItemsByType,
                 stats, finalData, baseItems>>

\* parseAllContentTypes, first half of a turn of its loop (line 68)
ParseFilesToBaseItems ==
  /\ pc = "parseAllContentTypes"
  /\ baseItems = NotYet
  /\ baseItems' = Arr(parseFilesToBaseItems(filesByType[CurrentType], CurrentType))
  /\ UNCHANGED <<pc, args, result, disk, schemas, validationLog, filesByType,
                 parsedItemsByType, postProcessedItems, validItemsByType,
                 invalidItemsByType, stats, finalData, cursor>>

\* parseAllContentTypes, second half of a turn of its loop (lines 71-72)
EnhanceBaseItems ==
  /\ pc = "parseAllContentTypes"
  /\ baseItems # NotYet
  /\ parsedItemsByType' =
       Assign(parsedItemsByType, CurrentType, enhanceBaseItems(baseItems.v, CurrentType))
  /\ baseItems' = NotYet
  /\ Advance("applyPostProcessing")
  /\ UNCHANGED <<args, result, disk, schemas, validationLog, filesByType,
                 postProcessedItems, validItemsByType, invalidItemsByType,
                 stats, finalData>>

\* one turn of the loop of applyPostProcessing; processedItems starts as a
\* copy of parsedItemsByType (line 85)
PostProcessContentType ==
  /\ pc = "applyPostProcessing"
  /\ LET processedItems == IF cursor = 0 THEN parsedItemsByType ELSE postProcessedItems
     IN postProcessedItems' =
          Assign(processedItems, CurrentType,
                 ApplyPostProcessor(CurrentType, processedItems[CurrentType], processedItems))
  /\ Advance("validateAllContentTypes")
  /\ UNCHANGED <<args, result, disk, schemas, validationLog, filesByType,
                 parsedItemsByType, validItemsByType, invalidItemsByType,
                 stats, finalData, baseItems>>

\* one turn of the loop of validateAllContentTypes.  An exception of
\* normalizeStatus is caught nowhere: the build ends there, with the log
\* entries written until then
ValidateContentType ==
  /\ pc = "validateAllContentTypes"
  /\ LET items == postProcessedItems[CurrentType]
         thrown == FirstThrow(items)
         written == LogEntries(items, CurrentType, 1,
                               IF thrown > 0 THEN thrown ELSE Len(items) + 1)
     IN /\ validationLog' =
             IF written = <<>> THEN validationLog
             ELSE [exists |-> TRUE, entries |-> validationLog.entries \o written]
        /\ IF thrown > 0
           THEN /\ pc' = "aborted"
                /\ UNCHANGED <<validItemsByType, invalidItemsByType, cursor>>
           ELSE /\ validItemsByType' =
                     Assign(validItemsByType, CurrentType,
                            validateContentType(items, CurrentType).valid)
                /\ invalidItemsByType' =
                     Assign(invalidItemsByType, CurrentType,
                            validateContentType(items, CurrentType).invalid)
                /\ Advance("generateStats")
  /\ UNCHANGED <<args, result, disk, schemas, filesByType, parsedItemsByType,
                 postProcessedItems, stats, finalData, baseItems>>

GenerateStats ==
  /\ pc = "generateStats"
  /\ stats' = generateStats(filesByType, parsedItemsByType, validItemsByType,
                            invalidItemsByType)
  /\ pc' = "buildFinalDataStructure"
  /\ UNCHANGED <<args, result, disk, schemas, validationLog, filesByType,
                 parsedItemsByType, postProcessedItems, validItemsByType,
                 invalidItemsByType, finalData, cursor, baseItems>>

BuildFinalDataStructure ==
  /\ pc = "buildFinalDataStructure"
  /\ finalData' = buildFinalDataStructure(validItemsByType, stats)
  /\ pc' = "done"
  /\ UNCHANGED <<args, result, disk, schemas, validationLog, filesByType,
                 parsedItemsByType, postProcessedItems, validItemsByType,
                 invalidItemsByType, stats, cursor, baseItems>>

\* the next build: module.exports is called again, on the same files and
\* schemas; of the state of the build before, only the log file is left
Rebuild ==
  /\ pc \in {"done", "aborted"}
  /\ pc' = "clearValidationLog"
  /\ filesByType' = NotYet
  /\ parsedItemsByType' = NotYet
  /\ postProcessedItems' = NotYet
  /\ validItemsByType' = NotYet
  /\ invalidItemsByType' = NotYet
  /\ stats' = NotYet
  /\ finalData' = NotYet
  /\ cursor' = 0
  /\ baseItems' = NotYet
  /\ UNCHANGED <<args, result, disk, schemas, validationLog>>

Next ==
  \/ ClearValidationLog
  \/ WalkContentTypeDirectory
  \/ ParseFilesToBaseItems
  \/ EnhanceBaseItems
  \/ PostProcessContentType
  \/ ValidateContentType
  \/ GenerateStats
  \/ BuildFinalDataStructure
  \/ Rebuild

Spec == Init /\ [][Next]_vars

\* ------------------------------------------------------------------------
\* src/lib/parsers/lists.js (the `lists` parser): enhanceListsItem,
\* postProcessLists
\* ------------------------------------------------------------------------
\* the property names every plain object inherits from Object.prototype
ObjectPrototypeKeys == {<<"constructor">>, <<"toString">>, <<"__proto__">>}

\* a member of Object.prototype: an object without question and url
ObjectPrototypeMember == [name |-> Str(<<"Object">>)]

\* `${faq.category}/${faq.filename.replace('.md', '')}`
FaqKeyOf(faq) ==
  Get(faq, "category").v \o <<"/">> \o ReplaceFirst(Get(faq, "filename").v, MdSuffix)

\* flatFaqStore after the forEach of lines 76-79: a later FAQ replaces an
\* earlier one with the same key
RECURSIVE FlatFaqStore(_)
FlatFaqStore(faqItems) ==
  IF faqItems = <<>> THEN <<>>
  ELSE LET earlier == FlatFaqStore(SubSeq(faqItems, 1, Len(faqItems) - 1))
           last == faqItems[Len(faqItems)]
           kept == SelectSeq(earlier, LAMBDA e : e.key # FaqKeyOf(last))
       IN Append(kept, [key |-> FaqKeyOf(last), value |-> last])

\* flatFaqStore[faqKey]: an own property, else a property inherited from
\* Object.prototype, else undefined
StoreLookup(store, faqKey) ==
  IF \E i \in 1..Len(store) : Str(store[i].key) = faqKey
    THEN store[CHOOSE i \in 1..Len(store) : Str(store[i].key) = faqKey].value
  ELSE IF faqKey.t = "string" /\ faqKey.v \in ObjectPrototypeKeys
    THEN ObjectPrototypeMember
  ELSE Undefined

\* what `for (const faqKey of faqs)` iterates over: the elements of an
\* array, the characters of a string; any other truthy value is not
\* iterable and the loop throws
IsIterable(faqs) == faqs.t \in {"array", "string"}

Iterated(faqs) ==
  IF faqs.t = "array" THEN faqs.v
  ELSE [i \in 1..Len(faqs.v) |-> Str(<<faqs.v[i]>>)]

\* the items pushed by the loop of lines 85-93
RECURSIVE ResolvedItems(_, _)
ResolvedItems(store, faqKeys) ==
  IF faqKeys = <<>> THEN <<>>
  ELSE LET faq == StoreLookup(store, Head(faqKeys))
       IN (IF faq # Undefined
           THEN << [question |-> Get(faq, "question"), url |-> Get(faq, "url")] >>
           ELSE <<>>) \o ResolvedItems(store, Tail(faqKeys))

computeListTemplateData(listItem, items) ==
  [description |-> JsOr(Get(listItem, "description"), Get(listItem, "answer"))]

\* the callback of listItems.map (lines 81-102)
postProcessListsItem(listItem, store) ==
  LET faqs == Get(listItem, "faqs")
      items == IF Truthy(faqs) THEN ResolvedItems(store, Iterated(faqs)) ELSE <<>>
  IN Spread(listItem,
            [items |-> Arr(items),
             templateData |-> computeListTemplateData(listItem, items)])

postProcessLists(listItems, allParsedData) ==
  LET faqItems == IF Truthy(Get(allParsedData, "faq")) THEN Get(allParsedData, "faq").v
                  ELSE <<>>
      store == FlatFaqStore(faqItems)
  IN IF \E i \in 1..Len(listItems) :
          Truthy(Get(listItems[i], "faqs")) /\ ~IsIterable(Get(listItems[i], "faqs"))
     THEN Thrown
     ELSE Arr([i \in 1..Len(listItems) |-> postProcessListsItem(listItems[i], store)])

\* ------------------------------------------------------------------------
\* Specification SpecLists: postProcessLists applied to list items and the
\* parsed FAQs
\* ------------------------------------------------------------------------
ListFaqItems ==
  { [category |-> Str(<<c>>), filename |-> Str(<<f, ".md">>),
     question |-> q, url |-> Str(<<"/faq/", c, "/", f, "/">>)] :
      c \in {"c", "root"}, f \in {"a", "b"}, q \in {Str(<<"Q">>), Null} }

\* references: to FAQs that may exist, to one that never does, one that
\* keeps the .md suffix, and one that is no FAQ key at all
ListReferences ==
  { Str(<<"c", "/", "a">>), Str(<<"root", "/", "b">>), Str(<<"x", "/", "y">>),
    Str(<<"c", "/", "a", ".md">>), Str(<<"constructor">>) }

ListFaqsValues ==
  {Undefined, Num(5), Str(<<"c", "/", "a">>)}
    \cup {Arr(refs) : refs \in SeqsUpTo(ListReferences, MaxRefs)}

ListItems ==
  { Obj({"filename", "description", "faqs"},
        [filename |-> Str(<<"l", ".md">>), description |-> Str(<<"d">>), faqs |-> f]) :
      f \in ListFaqsValues }

InitLists ==
  /\ pc = "postProcessLists"
  /\ args \in [listItems : UNION {[1..n -> ListItems] : n \in 1..1},
               allParsedData : {EmptyObject} \cup
                 {[faq |-> Arr(faqs)] : faqs \in SeqsUpTo(ListFaqItems, 2)}]
  /\ result = <<>>
  /\ PipelineIdle

CallPostProcessLists ==
  /\ pc = "postProcessLists"
  /\ result = <<>>
  /\ result' = <<postProcessLists(args.listItems, args.allParsedData)>>
  /\ UNCHANGED <<pc, args, pipelineVars>>

NextLists == CallPostProcessLists

SpecLists == InitLists /\ [][NextLists]_vars

\* ------------------------------------------------------------------------
\* The keyed final structure: buildFaqStructure and
\* createFaqGuidanceCrossReferences of the FAQ parser, buildGuidanceStructure
\* of the guidance parser, and the buildFinalDataStructure that calls them.
\* An object with computed keys is a function from the key strings.
\* ------------------------------------------------------------------------
Digits == <<"0", "1", "2", "3", "4", "5", "6", "7", "8", "9">>

\* String(n) for a natural number
RECURSIVE NumberToString(_)
NumberToString(n) ==
  IF n < 10 THEN <<Digits[n + 1]>>
  ELSE NumberToString(n \div 10) \o <<Digits[(n % 10) + 1]>>

\* `${value}`, which is also the property key obj[value] uses
JsToString(value) ==
  CASE value.t = "string" -> value.v
    [] value.t = "number" -> NumberToString(value.v)
    [] value.t = "boolean" -> IF value.v THEN <<"true">> ELSE <<"false">>
    [] value.t = "null" -> <<"null">>
    [] value.t = "undefined" -> <<"undefined">>

\* `${faqItem.category}/${faqItem.filename.replace('.md', '')}`
FaqKeyString(faqItem) ==
  JsToString(Get(faqItem, "category")) \o <<"/">>
    \o ReplaceFirst(Get(faqItem, "filename").v, MdSuffix)

\* the positions from i on at which `keys` has the key, in order
RECURSIVE PositionsWithKey(_, _, _)
PositionsWithKey(keys, key, i) ==
  IF i > Len(keys) THEN <<>>
  ELSE (IF keys[i] = key THEN <<i>> ELSE <<>>) \o PositionsWithKey(keys, key, i + 1)

CategoryKey(faqItem) == JsToString(Get(faqItem, "category"))

\* obj[key] is read before it is assigned: a key that Object.prototype
\* has is found there, and what is found has no push
buildFaqStructure(faqItems) ==
  LET categoryKeys == {CategoryKey(faqItems[i]) : i \in 1..Len(faqItems)}
      faqKeys == {FaqKeyString(faqItems[i]) : i \in 1..Len(faqItems)}
  IN IF categoryKeys \cap ObjectPrototypeKeys # {} THEN Thrown
     ELSE [categories |->
             [c \in categoryKeys |->
                LET at == PositionsWithKey([i \in 1..Len(faqItems) |-> CategoryKey(faqItems[i])], c, 1)
                IN [n \in 1..Len(at) |-> FaqKeyString(faqItems[at[n]])]],
           faq |->
             [k \in faqKeys |->
                LET at == PositionsWithKey([i \in 1..Len(faqItems) |-> FaqKeyString(faqItems[i])], k, 1)
                IN faqItems[at[Len(at)]]]]

GuidanceLinkKey(faqItem) == JsToString(Get(faqItem, "guidanceKey"))

HasGuidanceLink(faqItem) == Truthy(Get(faqItem, "guidanceKey"))

createFaqGuidanceCrossReferences(faqItems) ==
  LET linked == SelectSeq(faqItems, HasGuidanceLink)
      guidanceKeys == {GuidanceLinkKey(linked[i]) : i \in 1..Len(linked)}
  IN IF guidanceKeys \cap ObjectPrototypeKeys # {} THEN Thrown
     ELSE [faqGuidanceLinks |->
             [g \in guidanceKeys |->
                LET at == PositionsWithKey([i \in 1..Len(linked) |-> GuidanceLinkKey(linked[i])], g, 1)
                IN [n \in 1..Len(at) |-> FaqKeyString(linked[at[n]])]]]

GuidanceFileKey(guidanceItem) == ReplaceFirst(Get(guidanceItem, "filename").v, MdSuffix)

buildGuidanceStructure(guidanceItems) ==
  [guidance |->
     [g \in {GuidanceFileKey(guidanceItems[i]) : i \in 1..Len(guidanceItems)} |->
        LET at == PositionsWithKey([i \in 1..Len(guidanceItems) |-> GuidanceFileKey(guidanceItems[i])],
                                     g, 1)
        IN guidanceItems[at[Len(at)]]]]

\* buildFinalDataStructure(validItemsByType, stats, parserRegistry) with the
\* registry of the configured types: the list parser has no buildStructure
buildFinalDataStructure_ParserRegistry(validItems, statistics) ==
  LET structure == buildFaqStructure(validItems.faq)
      crossReferences == createFaqGuidanceCrossReferences(validItems.faq)
  IN IF structure = Thrown \/ crossReferences = Thrown THEN Thrown
     ELSE [stats |-> statistics,
           categories |-> structure.categories,
           faq |-> structure.faq,
           guidance |-> buildGuidanceStructure(validItems.guidance).guidance,
           list |-> validItems.list,
           crossReferences |-> crossReferences]

\* ------------------------------------------------------------------------
\* Specification SpecStructure: the final structure built from valid items
\* ------------------------------------------------------------------------
\* valid FAQ items: the category is the directory name or what the front
\* matter puts in its place (a string, a YAML number, or null for a key
\* without value), the guidance key is absent or a string
StructureCategories == {Str(<<"c">>), Num(7), Null, Str(<<"constructor">>)}

StructureFaqItems ==
  { Obj({"category", "filename", "question", "guidanceKey"},
        [category |-> c, filename |-> Str(<<f, ".md">>), question |-> Str(<<"Q">>),
         guidanceKey |-> g]) :
      c \in StructureCategories, f \in {"a", "b"}, g \in {Undefined, Str(<<"g">>)} }

\* no guidance, one guidance item, or two from files of the same name in
\* different directories
StructureGuidanceItems ==
  { <<>>, << [filename |-> Str(<<"g", ".md">>), title |-> Str(<<"T">>)] >>,
    << [filename |-> Str(<<"g", ".md">>), title |-> Str(<<"T">>)],
       [filename |-> Str(<<"g", ".md">>), title |-> Str(<<"U">>)] >> }

InitStructure ==
  /\ pc = "buildFinalDataStructure"
  /\ args \in [faq : SeqsUpTo(StructureFaqItems, MaxFaqs),
               guidance : StructureGuidanceItems,
               list : {<<>>}]
  /\ result = <<>>
  /\ PipelineIdle

CallBuildFinalDataStructure ==
  /\ pc = "buildFinalDataStructure"
  /\ result = <<>>
  /\ result' = <<buildFinalDataStructure_ParserRegistry(args, [version |-> "1.0.0"])>>
  /\ UNCHANGED <<pc, args, pipelineVars>>

NextStructure == CallBuildFinalDataStructure

SpecStructure == InitStructure /\ [][NextStructure]_vars

\* ------------------------------------------------------------------------
\* src/_data/curatedLists.js: the curated lists built from the YAML
\* definitions of src/_lists and the FAQs by category.  faqData is a function
\* from the category names to the FAQs of the category.
\* ------------------------------------------------------------------------
MaxCuratedFaqs == 2
MaxCuratedRefs == 2

isCompleteItem(item) ==
  /\ Truthy(Get(item, "question"))
  /\ Truthy(Get(item, "answer"))
  /\ Len(Trim(Get(item, "answer").v)) > 0

\* a.order || 999
OrderOf(listConfig) == JsOr(Get(listConfig, "order"), Num(999)).v

\* Array.prototype.sort with the comparator of line 47 (the sort is stable)
RECURSIVE InsertByOrder(_, _)
InsertByOrder(entry, sorted) ==
  IF sorted = <<>> THEN <<entry>>
  ELSE IF OrderOf(entry.config) < OrderOf(Head(sorted).config)
       THEN <<entry>> \o sorted
       ELSE <<Head(sorted)>> \o InsertByOrder(entry, Tail(sorted))

RECURSIVE SortByOrder(_)
SortByOrder(entries) ==
  IF entries = <<>> THEN <<>>
  ELSE InsertByOrder(entries[Len(entries)], SortByOrder(SubSeq(entries, 1, Len(entries) - 1)))

\* categoryItems.find(item => item.filename === faqRef.filename)
RECURSIVE FindByFilename(_, _)
FindByFilename(categoryItems, filename) ==
  IF categoryItems = <<>> THEN Undefined
  ELSE IF Get(Head(categoryItems), "filename") = filename THEN Head(categoryItems)
  ELSE FindByFilename(Tail(categoryItems), filename)

CuratedUrl(faqRef) ==
  Str(<<"/faq/">> \o faqRef.category.v \o <<"/">>
        \o ReplaceFirst(faqRef.filename.v, MdSuffix) \o <<"/">>)

\* the loop over listConfig.faqs
RECURSIVE CuratedListItems(_, _)
CuratedListItems(faqRefs, faqData) ==
  IF faqRefs = <<>> THEN <<>>
  ELSE LET faqRef == Head(faqRefs)
           faqItem == IF faqRef.category.v \in DOMAIN faqData
                      THEN FindByFilename(faqData[faqRef.category.v], faqRef.filename)
                      ELSE Undefined
       IN (IF faqItem # Undefined /\ isCompleteItem(faqItem)
           THEN << Spread(faqItem, [category |-> faqRef.category, url |-> CuratedUrl(faqRef)]) >>
           ELSE <<>>) \o CuratedListItems(Tail(faqRefs), faqData)

curatedLists(faqData, curatedListsConfig) ==
  LET sortedLists == SortByOrder(curatedListsConfig)
  IN [i \in 1..Len(sortedLists) |->
        [key |-> sortedLists[i].key,
         value |-> Spread(sortedLists[i].config,
                          [items |-> Arr(CuratedListItems(sortedLists[i].config.faqs.v, faqData)),
                           count |-> Num(Len(CuratedListItems(sortedLists[i].config.faqs.v,
                                                              faqData)))])]]

\* ------------------------------------------------------------------------
\* Specification SpecCurated: curatedLists applied to list definitions and
\* FAQs
\* ------------------------------------------------------------------------
\* FAQs of the category c, all from files named a.md: complete ones, ones
\* without heading or with a blank answer, drafts and approved ones
CuratedFaqItems ==
  { [filename |-> Str(<<"a", ".md">>), question |-> qa[1], answer |-> qa[2], status |-> s] :
      qa \in { <<Str(<<"Q">>), Str(<<"b">>)>>, <<Null, Str(<<"b">>)>>,
               <<Str(<<"Q">>), Str(<<" ">>)>>, <<Str(<<"Q">>), Str(<<>>)>> },
      s \in {Str(<<"Draft">>), Str(<<"Approved">>)} }

\* references to a FAQ that may exist, to a file and to a category that
\* do not
CuratedReferences ==
  { [category |-> Str(<<"c">>), filename |-> Str(<<"a", ".md">>)],
    [category |-> Str(<<"c">>), filename |-> Str(<<"b", ".md">>)],
    [category |-> Str(<<"x">>), filename |-> Str(<<"a", ".md">>)] }

CuratedConfigs ==
  UNION { { << [key |-> <<"l">>,
                config |-> Obj({"title", "order", "faqs"},
                               [title |-> Str(<<"T">>), order |-> o, faqs |-> Arr(refs)])] >>
              \o second :
            second \in { <<>>,
                         << [key |-> <<"m">>,
                             config |-> [title |-> Str(<<"T">>), order |-> Num(1),
                                         faqs |-> Arr(<<>>)]] >> } } :
          o \in {Undefined, Num(2)}, refs \in SeqsUpTo(CuratedReferences, MaxCuratedRefs) }

InitCurated ==
  /\ pc = "curatedLists"
  /\ args \in [faqData : {[c \in {<<"c">>} |-> faqs] : faqs \in SeqsUpTo(CuratedFaqItems, MaxCuratedFaqs)},
               curatedListsConfig : CuratedConfigs]
  /\ result = <<>>
  /\ PipelineIdle

CallCuratedLists ==
  /\ pc = "curatedLists"
  /\ result = <<>>
  /\ result' = <<Arr(curatedLists(args.faqData, args.curatedListsConfig))>>
  /\ UNCHANGED <<pc, args, pipelineVars>>

NextCurated == CallCuratedLists

SpecCurated == InitCurated /\ [][NextCurated]_vars

\* ------------------------------------------------------------------------
\* enrichFaqsWithGuidance (src/lib/contentProcessor.js, lines 242-260)
\* ------------------------------------------------------------------------
\* guidanceItems.find(g => g.filename.replace('.md', '') === guidanceKey):
\* the first guidance item whose key is the given one, Undefined when
\* there is none (lines 246-248)
RECURSIVE FindGuidance(_, _)
FindGuidance(guidanceItems, guidanceKey) ==
  IF guidanceItems = <<>> THEN Undefined
  ELSE IF Str(GuidanceKeyOf(Head(guidanceItems))) = guidanceKey
       THEN Head(guidanceItems)
       ELSE FindGuidance(Tail(guidanceItems), guidanceKey)

\* enrichFaqsWithGuidance that attaches the first guidance item to every
\* FAQ that has a reference, whatever its key
enrichFaqsWithGuidance_AnyGuidance(faqItems, guidanceItems) ==
  [i \in 1..Len(faqItems) |->
     IF Truthy(Get(faqItems[i], "guidance-id")) /\ guidanceItems # <<>>
     THEN Spread(faqItems[i], [relatedGuidance |-> Head(guidanceItems)])
     ELSE faqItems[i]]

enrichFaqsWithGuidance(faqItems, guidanceItems) ==
  [i \in 1..Len(faqItems) |->
     LET faq == faqItems[i]
         guidanceKey == Get(faq, "guidance-id")
     IN IF Truthy(guidanceKey)
        THEN LET relatedGuidance == FindGuidance(guidanceItems, guidanceKey)
             IN IF relatedGuidance # Undefined
                THEN Spread(faq, [relatedGuidance |-> relatedGuidance])
                ELSE faq
        ELSE faq]

\* ------------------------------------------------------------------------
\* Specification SpecEnrichFaqs: enrichFaqsWithGuidance applied to FAQ
\* items and guidance items
\* ------------------------------------------------------------------------
\* two of the guidance items have the same key
EnrichFaqsGuidanceItems ==
  EnrichGuidanceItems \cup
    { [filename |-> Str(<<"g", ".md">>), title |-> Str(<<"U">>)] }

EnrichFaqsFaqItems ==
  {faq \in EnrichFaqItems : Get(faq, "question") = Str(<<"A">>)}

InitEnrichFaqs ==
  /\ pc = "enrichFaqsWithGuidance"
  /\ args \in [faqItems : UNION {[1..n -> EnrichFaqsFaqItems] : n \in 0..MaxFaqs},
               guidanceItems : UNION {[1..n -> EnrichFaqsGuidanceItems] : n \in 0..2}]
  /\ result = <<>>
  /\ PipelineIdle

CallEnrichFaqsWithGuidance ==
  /\ pc = "enrichFaqsWithGuidance"
  /\ result = <<>>
  /\ result' = <<Arr(enrichFaqsWithGuidance(args.faqItems, args.guidanceItems))>>
  /\ UNCHANGED <<pc, args, pipelineVars>>

NextEnrichFaqs == CallEnrichFaqsWithGuidance

SpecEnrichFaqs == InitEnrichFaqs /\ [][NextEnrichFaqs]_vars

\* ------------------------------------------------------------------------
\* Specification SpecSummary: extractGuidanceSummary applied to a body
\* given line by line
\* ------------------------------------------------------------------------
MaxLines == 4

\* the lines a body is made of: "Guidance Needed" headings of two levels
\* and two spellings, other headings, a line that starts with # and is no
\* heading, text lines and an empty line
SummaryLines ==
  { <<"#", "#", " ", "Guidance Needed">>,
    <<"#", "Guidance needed">>,
    <<"#", "#", "#", " ", "o">>,
    <<"#", "o">>,
    <<"a">>,
    <<" ", "b", " ">>,
    <<>> }

\* the body whose lines are the given ones
RECURSIVE JoinLines(_)
JoinLines(lines) ==
  IF lines = <<>> THEN <<>>
  ELSE IF Len(lines) = 1 THEN lines[1]
  ELSE lines[1] \o <<"\n">> \o JoinLines(Tail(lines))

InitSummary ==
  /\ pc = "extractGuidanceSummary"
  /\ args \in {[content |-> JoinLines(lines)] :
                 lines \in UNION {[1..n -> SummaryLines] : n \in 0..MaxLines}}
  /\ result = <<>>
  /\ PipelineIdle

CallExtractGuidanceSummary ==
  /\ pc = "extractGuidanceSummary"
  /\ result = <<>>
  /\ result' = <<Str(extractGuidanceSummary(args.content))>>
  /\ UNCHANGED <<pc, args, pipelineVars>>

NextSummary == CallExtractGuidanceSummary

SpecSummary == InitSummary /\ [][NextSummary]_vars

\* ------------------------------------------------------------------------
\* Specification SpecListOrder: enhanceListItem applied to a base item with
\* or without a declared order, and the sort of curatedLists.js (lines
\* 46-48) applied to list definitions
\* ------------------------------------------------------------------------
MaxLists == 3

\* no order, the numbers 0, 1 and 2, the texts '0' and '1'
DeclaredOrders ==
  {Undefined, Num(0), Num(1), Num(2), Str(<<"0">>), Str(<<"1">>)}

ListOrderBaseItems ==
  { Obj({"filename", "rawMarkdown", "title", "order"},
        [filename |-> Str(<<"l", ".md">>), rawMarkdown |-> Str(b),
         title |-> t, order |-> o]) :
      b \in { <<>>, <<"#", " ", "a">>, <<"#", " ", "a", "\n", "a">>, <<"a">> },
      t \in {Undefined, Str(<<"T">>)},
      o \in DeclaredOrders }

\* list definitions named by their position, each with or without an order
ListOrderConfigs ==
  { [i \in 1..n |-> [key |-> <<"l", NumberToString(i)>>,
                     config |-> Obj({"order", "faqs"},
                                    [order |-> orders[i], faqs |-> Arr(<<>>)])]] :
      n \in 1..MaxLists, orders \in [1..MaxLists -> {Undefined, Num(0), Num(1)}] }

InitListOrder ==
  /\ \/ /\ pc = "enhanceListItem"
        /\ args \in {[baseItem |-> item] : item \in ListOrderBaseItems}
     \/ /\ pc = "sortedLists"
        /\ args \in {[curatedListsConfig |-> c] : c \in ListOrderConfigs}
  /\ result = <<>>
  /\ PipelineIdle

CallEnhanceListItem ==
  /\ pc = "enhanceListItem"
  /\ result = <<>>
  /\ result' = <<enhanceListItem(args.baseItem)>>
  /\ UNCHANGED <<pc, args, pipelineVars>>

CallSortedLists ==
  /\ pc = "sortedLists"
  /\ result = <<>>
  /\ result' = <<Arr(SortByOrder(args.curatedListsConfig))>>
  /\ UNCHANGED <<pc, args, pipelineVars>>

NextListOrder == CallEnhanceListItem \/ CallSortedLists

SpecListOrder == InitListOrder /\ [][NextListOrder]_vars

\* ------------------------------------------------------------------------
\* lib/types/faq.js: postProcessFaq, computeGuidanceData, computeAdminData
\* ------------------------------------------------------------------------
\* guidanceItems.find(g => g.filename === guidanceKey + ".md")
RECURSIVE FindGuidanceFile(_, _)
FindGuidanceFile(guidanceItems, guidanceKey) ==
  IF guidanceItems = <<>> THEN Undefined
  ELSE IF guidanceKey.t = "string"
          /\ Get(Head(guidanceItems), "filename") = Str(guidanceKey.v \o MdSuffix)
       THEN Head(guidanceItems)
       ELSE FindGuidanceFile(Tail(guidanceItems), guidanceKey)

computeGuidanceData(faq, guidanceItems) ==
  LET guidanceKey == JsOr(Get(faq, "pending-guidance"), Get(faq, "guidance-id"))
      isPendingGuidance ==
        \/ Get(faq, "Status") = Str(PENDING_GUIDANCE)
        \/ Truthy(guidanceKey)
      guidanceItem == FindGuidanceFile(guidanceItems, guidanceKey)
  IN IF ~isPendingGuidance THEN Null
     ELSE IF ~Truthy(guidanceKey) \/ guidanceItem = Undefined
       THEN [hasPendingGuidance |-> Bool(TRUE)]
     ELSE [hasPendingGuidance |-> Bool(TRUE),
           guidanceKey |-> guidanceKey,
           guidanceNeeded |-> Get(guidanceItem, "guidanceNeeded"),
           hasSpecificGuidance |-> Bool(Truthy(Get(guidanceItem, "guidanceNeeded"))),
           guidanceUrl |-> Str(<<"/pending-guidance/">> \o guidanceKey.v \o <<"/">>)]

\* the keys of the model hold no hyphen, so the title is the key with the
\* first letter of each word in upper case
computeAdminData(faq) ==
  LET guidanceKey == JsOr(Get(faq, "pending-guidance"), Get(faq, "guidance-id"))
  IN [hasGuidance |-> Bool(Truthy(guidanceKey)),
      guidanceKey |-> guidanceKey,
      guidanceTitle |-> IF Truthy(guidanceKey) THEN Str(TitleCase(guidanceKey.v)) ELSE Null,
      guidanceUrl |-> IF Truthy(guidanceKey)
                      THEN Str(<<"/pending-guidance/">> \o guidanceKey.v \o <<"/">>)
                      ELSE Null,
      hasRelatedIssue |-> Bool(Truthy(Get(faq, "Related issue"))),
      relatedIssue |-> Get(faq, "Related issue"),
      githubEditUrl |-> Str(GithubEditUrl(faq))]

\* postProcessFaq of lib/types/faq.js on the parsed data as a map from
\* type to items: the possible outcomes, each the returned FAQs with the
\* parsed data as the call leaves it, or Thrown.  The call assigns the
\* enriched guidance to allParsedData.guidance (lines 92-94)
postProcessFaqWithGuidance(faqItems, allParsedData) ==
  LET guidanceItems == IF "guidance" \in DOMAIN allParsedData
                       THEN allParsedData["guidance"] ELSE <<>>
      enrichedFaqs == enrichFaqsWithGuidance(faqItems, guidanceItems)
      faqsWithTemplateData ==
        [i \in 1..Len(enrichedFaqs) |->
           Spread(enrichedFaqs[i],
                  [guidanceData |-> computeGuidanceData(enrichedFaqs[i], guidanceItems),
                   adminData |-> computeAdminData(enrichedFaqs[i])])]
  IN {IF enrichedGuidance = Thrown THEN Thrown
      ELSE [items |-> faqsWithTemplateData,
            allParsedData |->
              IF "guidance" \in DOMAIN allParsedData
              THEN [allParsedData EXCEPT !["guidance"] = enrichedGuidance.v]
              ELSE allParsedData] :
        enrichedGuidance \in enrichGuidanceWithFaqs(guidanceItems, faqsWithTemplateData)}

\* ------------------------------------------------------------------------
\* Specification SpecCrossRef: the phases post-process, validate,
\* statistics and assemble of the pipeline, on parsed items, with the
\* post-processors that build cross-references.  args.registry names the
\* post-processors and the assembly: "types" is postProcessFaq of
\* lib/types/faq.js with the flat structure, "parsers" is postProcessFaq
\* of lib/parsers/faq.js with the keyed structure and its cross-reference
\* table; both resolve the lists with postProcessLists
\* ------------------------------------------------------------------------
GuidanceReferenceNoHeadingFile ==
  [frontmatter |-> ("guidance-id" :> Str(<<"a">>)) @@ [title |-> Str(<<"T">>)],
   content |-> <<"b">>]

NumberTitleFile == [frontmatter |-> [title |-> Num(7)], content |-> <<"b">>]

\* the FAQ parsed from a file of the category c
ParsedFaq(stem, file) ==
  enhanceFaqItem(parseBaseMarkdown(file, <<stem>> \o MdSuffix, <<"c">>, "faq"))

\* no FAQ, the FAQ a.md, or the FAQs a.md and b.md: with or without
\* heading, with or without a reference to the guidance a
CrossRefFaqs ==
  LET files == {DraftFile, TitleOnlyFile, GuidanceReferenceFile,
                GuidanceReferenceNoHeadingFile}
  IN {<<>>} \cup {<<ParsedFaq("a", f)>> : f \in files}
       \cup {<<ParsedFaq("a", f), ParsedFaq("b", g)>> : f \in files, g \in files}

\* no guidance, or the guidance a.md with a title that is a string or a
\* number
CrossRefGuidance ==
  {<<>>} \cup
  {<<enhanceGuidanceItem(parseBaseMarkdown(f, <<"a">> \o MdSuffix,
                                           <<"pending", "-", "guidance">>, "guidance"))>> :
     f \in {TitleOnlyFile, NumberTitleFile}}

\* no list, or the list l.md that refers to c/a, or to c/a and c/b
CrossRefLists ==
  {<<>>} \cup
  {<<enhanceListItem(parseBaseMarkdown(
       [frontmatter |-> [title |-> Str(<<"T">>), faqs |-> Arr(refs)], content |-> <<"d">>],
       <<"l">> \o MdSuffix, <<"root">>, "list"))>> :
     refs \in { <<Str(<<"c", "/", "a">>)>>,
                <<Str(<<"c", "/", "a">>), Str(<<"c", "/", "b">>)>> }}

\* one file for each parsed item
FilesOfItems(items) == [i \in 1..Len(items) |-> [filename |-> items[i].filename.v]]

InitCrossRef ==
  /\ pc = "applyPostProcessing"
  /\ args \in [registry : {"types", "parsers"}]
  /\ result = <<>>
  /\ disk = [dirs |-> {}, files |-> <<>>]
  /\ schemas = LoadedSchemas
  /\ validationLog = [exists |-> FALSE, entries |-> <<>>]
  /\ parsedItemsByType \in [faq : CrossRefFaqs, guidance : CrossRefGuidance,
                            list : CrossRefLists]
  /\ filesByType = [type \in DOMAIN parsedItemsByType |->
                      FilesOfItems(parsedItemsByType[type])]
  /\ postProcessedItems = NotYet
  /\ validItemsByType = NotYet
  /\ invalidItemsByType = NotYet
  /\ stats = NotYet
  /\ finalData = NotYet
  /\ cursor = 0
  /\ baseItems = NotYet

\* getPostProcessor(type) of the registry applied to the items of a type:
\* the possible outcomes, each the returned items with the parsed data as
\* the call leaves it, or Thrown
RegisteredPostProcessor(registry, type, items, allParsedData) ==
  CASE type = "faq" /\ registry = "types" ->
         postProcessFaqWithGuidance(items, allParsedData)
    [] type = "faq" /\ registry = "parsers" ->
         {[items |-> postProcessFaq(items, allParsedData),
           allParsedData |-> allParsedData]}
    [] type = "guidance" -> {[items |-> items, allParsedData |-> allParsedData]}
    [] type = "list" ->
         LET processed == postProcessLists(items, [faq |-> Arr(allParsedData["faq"])])
         IN {IF processed = Thrown THEN Thrown
             ELSE [items |-> processed.v, allParsedData |-> allParsedData]}

\* one turn of the loop of applyPostProcessing: processedItems starts as a
\* copy of the parsed items; the post-processor gets processedItems itself
\* as its second argument, and what it returns is assigned to
\* processedItems[type]
PostProcessRegisteredType ==
  /\ pc = "applyPostProcessing"
  /\ LET processedItems == IF cursor = 0 THEN parsedItemsByType ELSE postProcessedItems
     IN \E outcome \in RegisteredPostProcessor(args.registry, CurrentType,
                                               processedItems[CurrentType], processedItems) :
          IF outcome = Thrown
          THEN /\ pc' = "aborted"
               /\ postProcessedItems' = processedItems
               /\ UNCHANGED cursor
          ELSE /\ postProcessedItems' =
                    Assign(outcome.allParsedData, CurrentType, outcome.items)
               /\ Advance("validateAllContentTypes")
  /\ UNCHANGED <<args, result, disk, schemas, validationLog, filesByType,
                 parsedItemsByType, validItemsByType, invalidItemsByType,
                 stats, finalData, baseItems>>

\* buildFinalDataStructure of the registry
BuildRegisteredStructure ==
  /\ pc = "buildFinalDataStructure"
  /\ LET built == IF args.registry = "types"
                  THEN buildFinalDataStructure(validItemsByType, stats)
                  ELSE buildFinalDataStructure_ParserRegistry(validItemsByType, stats)
     IN IF built = Thrown
        THEN pc' = "aborted" /\ UNCHANGED finalData
        ELSE pc' = "done" /\ finalData' = built
  /\ UNCHANGED <<args, result, disk, schemas, validationLog, filesByType,
                 parsedItemsByType, postProcessedItems, validItemsByType,
                 invalidItemsByType, stats, cursor, baseItems>>

NextCrossRef ==
  \/ PostProcessRegisteredType
  \/ ValidateContentType
  \/ GenerateStats
  \/ BuildRegisteredStructure

SpecCrossRef == InitCrossRef /\ [][NextCrossRef]_vars

\* ------------------------------------------------------------------------
\* Properties of normalizeStatus (under SpecStatus)
\* ------------------------------------------------------------------------
\* the status of a result of normalizeStatus (undefined when the call threw)
StatusOf(r) == IF r = Thrown THEN Undefined ELSE Get(r, "status")

\* the status text an item declares: item.Status || item.status
DeclaredStatus(item) == JsOr(Get(item, "Status"), Get(item, "status"))

DeclaresText(item) ==
  DeclaredStatus(item).t = "string" /\ DeclaredStatus(item).v # <<>>

\* a guidance reference under either of the two front-matter keys
CarriesGuidanceReference(item) ==
  HasGuidanceKey(item, {"guidance-id", "pending-guidance"})

\* words occurs in text, compared token by token without regard to case
ContainsIgnoringCase(text, words) ==
  \E i \in 1..Len(text) :
    /\ i + Len(words) - 1 <= Len(text)
    /\ \A j \in 1..Len(words) : LowerToken(text[i + j - 1]) = words[j]

\* C3: normalizeStatus is idempotent: applying it to its own result changes
\* nothing, for every item.
C3_Idempotent == (Len(result) = 2) => (result[2] = result[1])

\* C4: an item with a guidance reference under `guidance-id` or under
\* `pending-guidance` gets status pending-guidance whatever it declares.
C4_GuidanceReferenceWins ==
  (Len(result) >= 1 /\ CarriesGuidanceReference(args.item))
    => StatusOf(result[1]) = Str(PENDING_GUIDANCE)

EndsWithMd(filename) == filename # <<>> /\ filename[Len(filename)] = ".md"

\* the filename with its .md suffix removed
Slug(filename) ==
  IF EndsWithMd(filename) THEN SubSeq(filename, 1, Len(filename) - 1) ELSE filename

\* C7: the base parser returns null exactly when the read failed or the
\* front-matter mapping is empty or missing; otherwise it returns an item
\* with the five common fields.
C7_FrontMatterGate ==
  (pc = "parseBaseMarkdown" /\ result # <<>>)
    => LET fc == args.fileContent
           gated == \/ fc = Null
                    \/ fc.frontmatter = Undefined
                    \/ fc.frontmatter = EmptyObject
       IN /\ (result[1] = Null) <=> gated
          /\ ~gated => {"filename", "category", "contentType", "rawMarkdown", "url"}
                          \subseteq DOMAIN result[1]

\* a readable document with one front-matter field has been parsed to an item
C7_Witness ==
  /\ pc = "parseBaseMarkdown"
  /\ result # <<>>
  /\ args.fileContent # Null
  /\ args.fileContent.frontmatter # Undefined
  /\ Cardinality(DOMAIN args.fileContent.frontmatter) = 1
  /\ result[1] # Null

\* C8: the url is /pending-guidance/{slug}/ for guidance, /lists/{slug}/ for
\* lists and list, /faq/{category}/{slug}/ for every other type, slug being
\* the filename without its .md suffix.
C8_UrlRouting ==
  (pc = "createUrl" /\ result # <<>>)
    => result[1] =
         IF args.contentType = "guidance"
           THEN <<"/pending-guidance/">> \o Slug(args.filename) \o <<"/">>
         ELSE IF args.contentType \in {"lists", "list"}
           THEN <<"/lists/">> \o Slug(args.filename) \o <<"/">>
         ELSE <<"/faq/">> \o args.category \o <<"/">> \o Slug(args.filename) \o <<"/">>

\* the routing of the configured type name `list` alone, for the file a.md
C8_ListIsRoutedToLists ==
  (pc = "createUrl" /\ result # <<>> /\ args.contentType = "list"
     /\ args.filename = <<"a", ".md">>)
    => result[1] = <<"/lists/", "a", "/">>

\* ------------------------------------------------------------------------
\* Properties of partitionByValidation (under SpecPartition)
\* ------------------------------------------------------------------------
\* the indexes of idx in increasing order
RECURSIVE Ascending(_)
Ascending(idx) ==
  IF idx = {} THEN <<>>
  ELSE LET m == CHOOSE i \in idx : \A j \in idx : i <= j
       IN <<m>> \o Ascending(idx \ {m})

Returned == result # <<>> /\ result[1] # Thrown

\* the partition itself: every passing item (normalised) is in the valid
\* list in input order, every failing item is in the invalid list in input
\* order and in no other, and the two lengths add up
PartitionHolds ==
  LET pass == Ascending({i \in 1..Len(args.items) : args.validator[i].valid})
      fail == Ascending({i \in 1..Len(args.items) : ~args.validator[i].valid})
      out == result[1]
  IN /\ Len(out.valid) + Len(out.invalid) = Len(args.items)
     /\ out.valid = [k \in 1..Len(pass) |-> normalizeStatus(args.items[pass[k]])]
     /\ Len(out.invalid) = Len(fail)
     /\ \A k \in 1..Len(fail) :
          out.invalid[k].item = normalizeStatus(args.items[fail[k]])

\* C1 as stated: for every validator, the partition holds and every entry of
\* the invalid list has at least one error entry.
C1_PartitionEveryValidator ==
  (pc = "partitionByValidation" /\ Returned)
    => /\ PartitionHolds
       /\ \A k \in 1..Len(result[1].invalid) : Len(result[1].invalid[k].errors) >= 1

\* C1 as amended: the partition holds for every validator, and the entry of
\* a failing item carries the error entries the validator reported for it:
\* at least one when the validator reported one, none when it reported none.
C1_Partition ==
  (pc = "partitionByValidation" /\ Returned)
    => LET fail == Ascending({i \in 1..Len(args.items) : ~args.validator[i].valid})
       IN /\ PartitionHolds
          /\ \A k \in 1..Len(fail) :
               LET reported == args.validator[fail[k]].errors
               IN result[1].invalid[k].errors =
                    IF reported.t = "array" THEN reported.v ELSE <<>>

\* a batch with a passing item after a failing one that has an error entry
C1_Witness ==
  /\ pc = "partitionByValidation"
  /\ Returned
  /\ Len(args.items) = 3
  /\ ~args.validator[1].valid
  /\ args.validator[1].errors = Arr(<<"required">>)
  /\ args.validator[2].valid
  /\ Len(result[1].valid) = 1
  /\ Len(result[1].invalid) = 2
  /\ Len(result[1].invalid[1].errors) = 1

\* ------------------------------------------------------------------------
\* Properties of the FAQ enhancer (under SpecFaq)
\* ------------------------------------------------------------------------
\* the lines of a text
RECURSIVE Lines(_)
Lines(s) ==
  LET i == IndexOf(s, <<"\n">>)
  IN IF i < 0 THEN <<s>> ELSE <<SubSeq(s, 1, i)>> \o Lines(Substring(s, i + 1))

IsBlank(line) == \A i \in 1..Len(line) : IsSpace(line[i])

\* a line of the form "# text"
IsHeadingLine(line) ==
  /\ Len(line) >= 3
  /\ line[1] = "#"
  /\ line[2] = " "
  /\ ~IsBlank(SubSeq(line, 3, Len(line)))

\* the body is blank, or its first line that starts with # is a heading line
\* "# text" and every line after that one is blank
NothingAfterHeading(body) ==
  LET ls == Lines(body)
      hashed == {i \in 1..Len(ls) : ls[i] # <<>> /\ ls[i][1] = "#"}
  IN \/ IsBlank(body)
     \/ /\ hashed # {}
        /\ LET h == CHOOSE i \in hashed : \A j \in hashed : i <= j
           IN /\ IsHeadingLine(ls[h])
              /\ \A j \in (h + 1)..Len(ls) : IsBlank(ls[j])

\* C10: a body with nothing but whitespace after its first heading line (or
\* an empty body) gives an enhanced item without an answer field, and an
\* answer field that is present is a non-empty string.
C10_AnswerOmitted ==
  (pc = "enhanceFaqItem" /\ result # <<>>)
    => /\ NothingAfterHeading(args.baseItem.rawMarkdown.v)
            => "answer" \notin DOMAIN result[1]
       /\ "answer" \in DOMAIN result[1]
            => result[1].answer.t = "string" /\ result[1].answer.v # <<>>

\* the same for the bodies in which the heading's text occurs nowhere before
\* the heading line
C10_AnswerOmittedWhenTextIsNew ==
  (pc = "enhanceFaqItem" /\ result # <<>>)
    => LET body == args.baseItem.rawMarkdown.v
           m == HeadingMatch(body)
       IN /\ (NothingAfterHeading(body) /\ (m.found => IndexOf(body, m.text) = m.index))
               => "answer" \notin DOMAIN result[1]
          /\ "answer" \in DOMAIN result[1]
               => result[1].answer.t = "string" /\ result[1].answer.v # <<>>

\* ------------------------------------------------------------------------
\* Properties of enrichGuidanceWithFaqs (under SpecEnrich)
\* ------------------------------------------------------------------------
\* how many entries of a sequence equal e
Count(entries, e) == Cardinality({i \in 1..Len(entries) : entries[i] = e})

ConfiguredTypes == {CONTENT_TYPE_NAMES[k] : k \in 1..Len(CONTENT_TYPE_NAMES)}

\* the base items of a type, as the base parser makes them from the files
\* found by the walk
BaseItemsOf(type) == parseFilesToBaseItems(filesByType[type], type)

\* the base items an item of the pipeline comes from: same file
BaseItemsFor(type, item) ==
  {b \in {BaseItemsOf(type)[i] : i \in 1..Len(BaseItemsOf(type))} :
     /\ Get(b, "filename") = Get(item, "filename")
     /\ Get(b, "category") = Get(item, "category")}

\* position by position, the items have the urls of the base items
SameUrls(items, type) ==
  /\ Len(items) = Len(BaseItemsOf(type))
  /\ \A i \in 1..Len(items) : Get(items[i], "url") = Get(BaseItemsOf(type)[i], "url")

\* every item of the list has the url of the base item of its file
UrlsFromBase(items, type) ==
  \A i \in 1..Len(items) :
    /\ BaseItemsFor(type, items[i]) # {}
    /\ \A b \in BaseItemsFor(type, items[i]) : Get(items[i], "url") = Get(b, "url")

Parsed == pc \in {"applyPostProcessing", "validateAllContentTypes", "generateStats",
                  "buildFinalDataStructure", "done", "aborted"}
PostProcessed == pc \in {"validateAllContentTypes", "generateStats",
                         "buildFinalDataStructure", "done", "aborted"}
Validated == pc \in {"generateStats", "buildFinalDataStructure", "done"}

\* C9: the url of an item is the one the base parser assigned: enhancing,
\* post-processing, status normalisation with validation, and the assembly of
\* the final structure leave it as it was, for every item of every type that
\* reaches the final structure (and for the FAQ entries of faqListData).
C9_UrlUnchanged ==
  \A type \in ConfiguredTypes :
    /\ Parsed => SameUrls(parsedItemsByType[type], type)
    /\ PostProcessed => SameUrls(postProcessedItems[type], type)
    /\ Validated => UrlsFromBase(validItemsByType[type], type)
    /\ pc = "done" =>
         /\ UrlsFromBase(finalData[type], type)
         /\ (type = "faq" /\ "faqListData" \in DOMAIN finalData) =>
              \A c \in 1..Len(finalData["faqListData"]) :
                UrlsFromBase(finalData["faqListData"][c].questions, "faq")

\* a FAQ whose front matter sets its own url and a list item have reached
\* the final structure
C9_Witness ==
  /\ pc = "done"
  /\ \E i \in 1..Len(finalData["faq"]) :
       /\ Get(finalData["faq"][i], "url") = Str(<<"/x/">>)
       /\ "githubEditUrl" \in DOMAIN finalData["faq"][i]
  /\ Len(finalData["list"]) > 0

\* the item declares no status and carries no guidance reference
DeclaresNothing(item) ==
  /\ ~Truthy(Get(item, "status"))
  /\ ~Truthy(Get(item, "Status"))
  /\ ~CarriesGuidanceReference(item)

\* every item of the list that comes from a file declaring nothing has
\* status null
NullStatusKept(items, type) ==
  \A i \in 1..Len(items) :
    \A b \in BaseItemsFor(type, items[i]) :
      DeclaresNothing(b) => /\ "status" \in DOMAIN items[i]
                            /\ items[i]["status"] = Null

\* C6: an item that declares neither status nor Status and carries no
\* guidance reference is given status null by normalizeStatus, never
\* approved, and has status null in the final structure.
C6_UndeclaredStatusIsNull ==
  \A type \in ConfiguredTypes :
    /\ Validated => NullStatusKept(validItemsByType[type], type)
    /\ pc = "done" => NullStatusKept(finalData[type], type)

\* an item without status and reference is in the final structure
C6_Witness ==
  /\ pc = "done"
  /\ \E type \in ConfiguredTypes :
       \E i \in 1..Len(finalData[type]) :
         /\ \E b \in BaseItemsFor(type, finalData[type][i]) : DeclaresNothing(b)
         /\ Get(finalData[type][i], "status") = Null

\* ------------------------------------------------------------------------
\* Properties of postProcessLists (under SpecLists)
\* ------------------------------------------------------------------------
\* the FAQs of the parsed data a reference matches: those whose key
\* "{category}/{slug}" is the reference
MatchingFaqs(reference) ==
  LET faqItems == IF "faq" \in DOMAIN args.allParsedData
                  THEN args.allParsedData["faq"].v ELSE <<>>
  IN {faqItems[i] : i \in {j \in 1..Len(faqItems) :
        Str(faqItems[j].category.v \o <<"/">> \o Slug(faqItems[j].filename.v)) = reference}}

\* the references of an array that match some FAQ, in the declared order
ResolvableReferences(references) ==
  SelectSeq(references, LAMBDA r : MatchingFaqs(r) # {})

\* items is the declared references, without those that match no FAQ, each
\* replaced by the {question, url} of a FAQ it matches
ItemsResolve(listItem, processed) ==
  LET kept == ResolvableReferences(listItem["faqs"].v)
      items == processed["items"].v
  IN /\ Len(items) = Len(kept)
     /\ \A k \in 1..Len(kept) :
          \E faq \in MatchingFaqs(kept[k]) :
            items[k] = [question |-> faq.question, url |-> faq.url]

\* C11: after list post-processing, items is the sequence obtained from the
\* faqs reference array by dropping every reference that matches no FAQ key
\* "{category}/{slug}" and replacing each other reference by the
\* {question, url} of the matching FAQ, in the declared order.
C11_ListResolution ==
  (pc = "postProcessLists" /\ Returned)
    => \A i \in 1..Len(args.listItems) :
         ("faqs" \in DOMAIN args.listItems[i] /\ args.listItems[i]["faqs"].t = "array")
           => ItemsResolve(args.listItems[i], result[1].v[i])

\* the same for the reference arrays none of whose references names a
\* property that objects inherit
C11_ListResolutionOfOwnKeys ==
  (pc = "postProcessLists" /\ Returned)
    => \A i \in 1..Len(args.listItems) :
         ( /\ "faqs" \in DOMAIN args.listItems[i]
           /\ args.listItems[i]["faqs"].t = "array"
           /\ \A k \in 1..Len(args.listItems[i]["faqs"].v) :
                args.listItems[i]["faqs"].v[k].v \notin ObjectPrototypeKeys )
           => ItemsResolve(args.listItems[i], result[1].v[i])

\* ------------------------------------------------------------------------
\* Properties of a run of the pipeline (under Spec)
\* ------------------------------------------------------------------------
\* C12: no run of the pipeline ends in an uncaught exception, whatever the
\* files hold (a status that is no string, a body without heading, an
\* unreadable file, a missing directory, FAQs sharing a guidance reference).
C12_NeverAborts == pc # "aborted"

\* ------------------------------------------------------------------------
\* The phases of a run (under Spec)
\* ------------------------------------------------------------------------
\* the configured types an object under construction has a key for
TypesIn(byType) == (DOMAIN byType) \cap ConfiguredTypes

\* the types whose directory has been walked
Discovered == TypesIn(filesByType)

\* the types whose files have been parsed to base items
BaseParsed ==
  TypesIn(parsedItemsByType) \cup (IF baseItems # NotYet THEN {CurrentType} ELSE {})

\* the types whose base items have been enhanced
Enhanced == TypesIn(parsedItemsByType)

\* the types the loop of applyPostProcessing has been through
PostProcessedTypes ==
  IF postProcessedItems = NotYet THEN {}
  ELSE IF pc = "applyPostProcessing" THEN {CONTENT_TYPE_NAMES[k] : k \in 1..cursor}
  ELSE ConfiguredTypes

\* the types that have been validated
ValidatedTypes == TypesIn(validItemsByType)

\* no step of the later phase before the earlier one is over for every type
Barrier(earlier, later) == later # {} => earlier = ConfiguredTypes

Assembling == IF stats # NotYet \/ finalData # NotYet THEN ConfiguredTypes ELSE {}

\* C13 as stated: there is a full barrier between each two consecutive
\* phases of discovery, parse, enhance, post-process, validate, assemble: no
\* step of a phase is taken for any type before the phase before it is over
\* for every type.
C13_SixPhaseBarrier ==
  /\ Barrier(Discovered, BaseParsed)
  /\ Barrier(BaseParsed, Enhanced)
  /\ Barrier(Enhanced, PostProcessedTypes)
  /\ Barrier(PostProcessedTypes, ValidatedTypes)
  /\ Barrier(ValidatedTypes, Assembling)

\* C13, amended: the barrier is between discovery, parsing (which parses and
\* enhances one type after the other in one loop), post-processing,
\* validation and assembly.
C13_PhaseBarrier ==
  /\ Barrier(Discovered, BaseParsed)
  /\ Barrier(Enhanced, PostProcessedTypes)
  /\ Barrier(PostProcessedTypes, ValidatedTypes)
  /\ Barrier(ValidatedTypes, Assembling)
  /\ finalData # NotYet => stats # NotYet

\* a phase is under way for one type only, the phase before it over for all
C13_Witness ==
  /\ PostProcessedTypes = {"faq"}
  /\ Enhanced = ConfiguredTypes
  /\ ValidatedTypes = {}

\* ------------------------------------------------------------------------
\* The statistics of a run (under Spec)
\* ------------------------------------------------------------------------
\* the positions of the items of a type, as submitted to validation, that
\* pass / fail the validator
PassingPositions(type) ==
  {i \in 1..Len(postProcessedItems[type]) : Verdicts(postProcessedItems[type], type)[i].valid}

FailingPositions(type) ==
  {i \in 1..Len(postProcessedItems[type]) : ~Verdicts(postProcessedItems[type], type)[i].valid}

\* C14: for every content type the statistics record the number of items
\* that passed validation as {type}Valid and the number of items that failed
\* it as {type}Invalid, so the two add up to the number of items of the type
\* submitted to validation.
C14_ValidInvalidCounts ==
  stats # NotYet =>
    \A type \in ConfiguredTypes :
      /\ stats.counts[type].Valid = Cardinality(PassingPositions(type))
      /\ stats.counts[type].Invalid = Cardinality(FailingPositions(type))
      /\ stats.counts[type].Valid + stats.counts[type].Invalid
           = Len(postProcessedItems[type])

\* the valid count alone is the number of items that passed
C14_ValidCountOnly ==
  stats # NotYet =>
    \A type \in ConfiguredTypes :
      stats.counts[type].Valid = Cardinality(PassingPositions(type))

\* ------------------------------------------------------------------------
\* The validation log (under Spec)
\* ------------------------------------------------------------------------
\* the error entries validation writes for the types from position k on, the
\* last of them up to the item before `upTo`
RECURSIVE ErrorEntries(_, _, _)
ErrorEntries(k, last, upTo) ==
  IF k > last THEN <<>>
  ELSE LET type == CONTENT_TYPE_NAMES[k]
           items == postProcessedItems[type]
       IN LogEntries(items, type, 1, IF k = last THEN upTo ELSE Len(items) + 1)
            \o ErrorEntries(k + 1, last, upTo)

\* the error entries of the build that is over
ErrorEntriesOfBuild ==
  IF pc = "aborted"
  THEN ErrorEntries(1, cursor + 1, FirstThrow(postProcessedItems[CurrentType]))
  ELSE ErrorEntries(1, NumTypes, Len(postProcessedItems[CONTENT_TYPE_NAMES[NumTypes]]) + 1)

IsPrefix(s, t) == Len(s) <= Len(t) /\ SubSeq(t, 1, Len(s)) = s

\* the first step of a build leaves no log; it is the only step that removes
\* anything from the log, the builds' other steps only append, and they do
\* so during validation
LogStep ==
  /\ pc = "clearValidationLog" => validationLog'.entries = <<>>
  /\ pc' = "clearValidationLog" => pc \in {"done", "aborted"}
  /\ (pc # "clearValidationLog" /\ validationLog' # validationLog) =>
       /\ pc = "validateAllContentTypes"
       /\ IsPrefix(validationLog.entries, validationLog'.entries)

IsReadable(file) == readFileContentIO(file.fullPath) # Null

\* the item the base parser makes of one file
ItemOfFile(file, type) ==
  parseBaseMarkdown(readFileContentIO(file.fullPath), file.filename, file.category, type)

\* the files of the batch that is being parsed
BatchFiles == filesByType[CurrentType]

\* C16: a file whose read fails contributes no item and does not abort the
\* batch: the base items of the batch are the items of its other files, each
\* the item that file is parsed to on its own, in the order of the files,
\* which is the batch of the same files without the failing ones.
C16_UnreadableFileSkipped ==
  baseItems # NotYet =>
    LET readable == SelectSeq(BatchFiles, IsReadable)
        items == [i \in 1..Len(readable) |-> ItemOfFile(readable[i], CurrentType)]
    IN /\ baseItems.v = SelectSeq(items, IsItem)
       /\ baseItems.v = parseFilesToBaseItems(readable, CurrentType)

\* a batch whose first file cannot be read and whose second file is parsed
C16_Witness ==
  /\ baseItems # NotYet
  /\ Len(BatchFiles) >= 2
  /\ ~IsReadable(BatchFiles[1])
  /\ IsReadable(BatchFiles[2])
  /\ baseItems.v = <<ItemOfFile(BatchFiles[2], CurrentType)>>

\* ------------------------------------------------------------------------
\* Types without schema (under Spec)
\* ------------------------------------------------------------------------
\* the items of a type as validation hands them on: status normalised
NormalizedItems(type) ==
  [i \in 1..Len(postProcessedItems[type]) |-> normalizeStatus(postProcessedItems[type][i])]

\* the log entries of a type
IsEntryOf(type) == {i \in 1..Len(validationLog.entries) : validationLog.entries[i].schemaType = type}

\* C17: for a content type with no loaded schema, validation reports every
\* item valid with no errors, so every post-processed item of the type is in
\* the final structure (with its status normalised), the type's invalid
\* count is zero, and nothing is logged for the type.
C17_NoSchemaAllValid ==
  pc = "done" =>
    \A type \in ConfiguredTypes :
      schemas[type] = Null =>
        /\ \A i \in 1..Len(postProcessedItems[type]) :
             Verdicts(postProcessedItems[type], type)[i] = [valid |-> TRUE, errors |-> Arr(<<>>)]
        /\ finalData[type] = NormalizedItems(type)
        /\ stats.counts[type].Invalid = 0
        /\ stats.counts[type].Valid = Len(postProcessedItems[type])
        /\ IsEntryOf(type) = {}

\* a finished build with two FAQ items, one of them without question, and no
\* FAQ schema
C17_Witness ==
  /\ pc = "done"
  /\ schemas["faq"] = Null
  /\ Len(postProcessedItems["faq"]) = 2
  /\ \E i \in 1..2 : Get(postProcessedItems["faq"][i], "question") = Null
  /\ Len(finalData["faq"]) = 2

\* ------------------------------------------------------------------------
\* The categories the walker assigns (under Spec)
\* ------------------------------------------------------------------------
\* the markdown files of the disk below the root of a type
MarkdownFilesUnder(typeDir) ==
  {i \in 1..Len(disk.files) :
     /\ disk.files[i].md
     /\ directoryExists(typeDir)
     /\ disk.files[i].dir \in TreeBelow(typeDir)}

\* the ContentFiles the walker has returned for a file of the disk
ContentFilesOf(type, i) ==
  {k \in 1..Len(filesByType[type]) :
     filesByType[type][k].fullPath = [dir |-> disk.files[i].dir, name |-> FileName(i, TRUE)]}

\* the names of the directories on the way from the root of a type to a
\* directory below it
RECURSIVE DirectoryNames(_, _)
DirectoryNames(from, dir) ==
  IF from = dir THEN <<>>
  ELSE LET sub == CHOOSE e \in {Subdirectories(from)[i] : i \in 1..Len(Subdirectories(from))} :
                    dir \in TreeBelow(e.path)
       IN <<sub.name>> \o DirectoryNames(sub.path, dir)

TopLevelSubdirectory(typeDir, dir) ==
  IF dir = typeDir THEN <<"root">> ELSE Head(DirectoryNames(typeDir, dir))

ParentDirectory(typeDir, dir) ==
  IF dir = typeDir THEN <<"root">>
  ELSE DirectoryNames(typeDir, dir)[Len(DirectoryNames(typeDir, dir))]

\* for every markdown file below the root of a walked type there is exactly
\* one ContentFile, and its category is the top-level subdirectory, or else
\* the directory the file is in
OneContentFileWithCategory(topLevel) ==
  \A type \in Discovered :
    \A i \in MarkdownFilesUnder(getSourceDirectory(type)) :
      /\ Cardinality(ContentFilesOf(type, i)) = 1
      /\ \A k \in ContentFilesOf(type, i) :
           filesByType[type][k].category
             = IF topLevel
               THEN TopLevelSubdirectory(getSourceDirectory(type), disk.files[i].dir)
               ELSE ParentDirectory(getSourceDirectory(type), disk.files[i].dir)

\* C18 as stated: for every markdown file at any depth under the root of a
\* content type the walker returns exactly one ContentFile, whose category is
\* the name of the top-level subdirectory of the root that contains the file
\* (root/a/b/x.md has category a), or `root` for a file directly in the root.
C18_TopLevelCategory == OneContentFileWithCategory(TRUE)

\* C18, amended: the category is the name of the directory the file is
\* directly in (root/a/b/x.md has category b), or `root` for a file directly
\* in the root.
C18_ParentCategory == OneContentFileWithCategory(FALSE)

\* a walk that has found a file two directories below the root
C18_Witness ==
  /\ "faq" \in Discovered
  /\ \E k \in 1..Len(filesByType["faq"]) :
       /\ filesByType["faq"][k].fullPath.dir = NestedDir
       /\ filesByType["faq"][k].category = <<"n">>

\* ------------------------------------------------------------------------
\* Properties of the keyed final structure (under SpecStructure)
\* ------------------------------------------------------------------------
\* every key of every category is a key of the FAQ lookup
CategoryKeysDefined(data) ==
  \A c \in DOMAIN data.categories :
    \A n \in 1..Len(data.categories[c]) : data.categories[c][n] \in DOMAIN data.faq

\* the FAQ a category lists has that category: the string that is the key
CategoriesMatch(data) ==
  \A c \in DOMAIN data.categories :
    \A n \in 1..Len(data.categories[c]) :
      LET category == Get(data.faq[data.categories[c][n]], "category")
      IN category.t = "string" /\ category.v = c

\* every FAQ key of the cross-reference table is a key of the FAQ lookup
CrossReferencesDefined(data) ==
  \A g \in DOMAIN data.crossReferences.faqGuidanceLinks :
    \A n \in 1..Len(data.crossReferences.faqGuidanceLinks[g]) :
      data.crossReferences.faqGuidanceLinks[g][n] \in DOMAIN data.faq

\* C19: in the structure the pipeline returns, for every category c and
\* every key k listed in categories[c], faq[k] is defined and faq[k].category
\* equals c; and every FAQ key listed in the cross-reference table is a key
\* of the faq lookup.
C19_StructureConsistent ==
  Returned =>
    /\ CategoryKeysDefined(result[1])
    /\ CategoriesMatch(result[1])
    /\ CrossReferencesDefined(result[1])

\* the keys are always defined, and the categories match when every
\* category is a string
C19_ConsistentForStringCategories ==
  Returned =>
    /\ CategoryKeysDefined(result[1])
    /\ CrossReferencesDefined(result[1])
    /\ (\A i \in 1..Len(args.faq) : Get(args.faq[i], "category").t = "string")
         => CategoriesMatch(result[1])

\* ------------------------------------------------------------------------
\* Properties of the curated lists (under SpecCurated)
\* ------------------------------------------------------------------------
\* the status of an item says draft
IsDraft(item) ==
  /\ Get(item, "status").t = "string"
  /\ Includes(ToLowerCase(Get(item, "status").v), <<"draft">>)

\* every item of every list is a referenced FAQ that exists and has a
\* non-empty question and a non-empty answer, and the count of the list is
\* the number of its items
ItemsCompleteAndCounted ==
  \A i \in 1..Len(result[1].v) :
    LET list == result[1].v[i].value
    IN /\ list.count = Num(Len(list.items.v))
       /\ \A n \in 1..Len(list.items.v) :
            LET item == list.items.v[n]
            IN /\ \E c \in DOMAIN args.faqData :
                    \E k \in 1..Len(args.faqData[c]) :
                      /\ Without(Without(item, "url"), "category") = args.faqData[c][k]
                      /\ \E r \in 1..Len(list.faqs.v) :
                           /\ list.faqs.v[r].category = Str(c)
                           /\ list.faqs.v[r].category = Get(item, "category")
                           /\ list.faqs.v[r].filename = Get(args.faqData[c][k], "filename")
               /\ Get(item, "question").t = "string" /\ Get(item, "question").v # <<>>
               /\ Get(item, "answer").t = "string" /\ Trim(Get(item, "answer").v) # <<>>

NoDraftItems ==
  \A i \in 1..Len(result[1].v) :
    \A n \in 1..Len(result[1].v[i].value.items.v) :
      ~IsDraft(result[1].v[i].value.items.v[n])

\* C20: when curated lists are built from their definitions, a referenced
\* FAQ is included in a list's items only if it exists, has a non-empty
\* question and a non-empty answer and is not a draft; no item of any curated
\* list has draft status, and the count of a list equals the number of its
\* items.
C20_CuratedItemsCompleteNoDrafts ==
  Returned => ItemsCompleteAndCounted /\ NoDraftItems

\* the same without the condition on drafts
C20_CuratedItemsComplete ==
  Returned => ItemsCompleteAndCounted

\* ------------------------------------------------------------------------
\* Properties of enrichFaqsWithGuidance (under SpecEnrichFaqs)
\* ------------------------------------------------------------------------
\* the positions of the guidance items whose key is the given reference
GuidancePositionsWithKey(guidanceItems, guidanceKey) ==
  {j \in 1..Len(guidanceItems) : Str(GuidanceKeyOf(guidanceItems[j])) = guidanceKey}

FirstPosition(positions) == CHOOSE j \in positions : \A k \in positions : j <= k

TrimmedLines(content) ==
  [i \in 1..Len(SplitLines(content)) |-> Trim(SplitLines(content)[i])]

\* a heading line of any level, a "Guidance Needed" heading included
IsAnyHeading(line) == IsSectionHeading(line) \/ IsGuidanceNeededHeading(line)

IsNonEmptyLine(line) == line # <<>>

\* the positions of the "Guidance Needed" headings of a body
GuidanceHeadings(content) ==
  {i \in 1..Len(TrimmedLines(content)) : IsGuidanceNeededHeading(TrimmedLines(content)[i])}

\* the non-empty lines strictly between the line at position first and the
\* first line after it that satisfies stop (1 for any heading, 2 for a
\* heading that is no "Guidance Needed" heading)
LinesBetween(content, first, stop) ==
  LET lines == TrimmedLines(content)
      stops == {j \in (first + 1)..Len(lines) :
                  IF stop = 1 THEN IsAnyHeading(lines[j])
                  ELSE IsSectionHeading(lines[j]) /\ ~IsGuidanceNeededHeading(lines[j])}
      next == IF stops = {} THEN Len(lines) + 1
              ELSE CHOOSE j \in stops : \A k \in stops : j <= k
  IN SelectSeq(SubSeq(lines, first + 1, next - 1), IsNonEmptyLine)

\* the summary the section that starts at the first "Guidance Needed"
\* heading gives
SummaryOfSection(content, stop) ==
  IF GuidanceHeadings(content) = {} THEN Str(<<>>)
  ELSE LET first == CHOOSE i \in GuidanceHeadings(content) :
                      \A k \in GuidanceHeadings(content) : i <= k
       IN Str(JoinWithSpace(SelectSeq(LinesBetween(content, first, stop),
                                      LAMBDA line : ~IsGuidanceNeededHeading(line))))

\* C22: the guidance summary is made of exactly the non-empty lines strictly
\* between the first "Guidance Needed" heading and the next heading line of
\* any level after it, a second "Guidance Needed" heading included, joined
\* by single spaces in their order; a body without such a heading gives the
\* empty string, never null.
C22_SummaryUntilNextHeading ==
  (pc = "extractGuidanceSummary" /\ result # <<>>) =>
    result[1] = SummaryOfSection(args.content, 1)

\* what the loop does: a later "Guidance Needed" heading is skipped and
\* does not end the section; only another heading does
C22_SummaryUntilOtherHeading ==
  (pc = "extractGuidanceSummary" /\ result # <<>>) =>
    result[1] = SummaryOfSection(args.content, 2)

\* a body with text after a first "Guidance Needed" heading
C22_SectionCollected ==
  /\ pc = "extractGuidanceSummary" /\ result # <<>>
  /\ GuidanceHeadings(args.content) # {}
  /\ result[1] # Str(<<>>)

\* ------------------------------------------------------------------------
\* Properties of findRelatedFaqs' order (under SpecEnrich)
\* ------------------------------------------------------------------------
\* the entries are in ascending order of question text
AscendingByQuestion(entries) ==
  \A i, j \in 1..Len(entries) :
    i < j => /\ entries[i].question.t = "string"
             /\ entries[j].question.t = "string"
             /\ ~LocaleLess(entries[j].question.v, entries[i].question.v)

\* every run over the same FAQs given in another order gives the result
\* of this run
SameInEveryOrder ==
  \A faqItems \in Arrangements(args.faqItems) :
    enrichGuidanceWithFaqs(args.guidanceItems, faqItems) = {result[1]}

\* the FAQs that refer to some guidance item of the call have questions
\* that are strings, no two of them the same
RelatedQuestionsDistinctText ==
  \A i, j \in 1..Len(args.faqItems) :
    (\E gi \in 1..Len(args.guidanceItems) :
       Get(args.faqItems[i], "guidance-id") = Str(GuidanceKeyOf(args.guidanceItems[gi])))
    => /\ Get(args.faqItems[i], "question").t = "string"
       /\ (i # j /\ Get(args.faqItems[i], "guidance-id") = Get(args.faqItems[j], "guidance-id"))
            => Get(args.faqItems[i], "question") # Get(args.faqItems[j], "question")

\* C23: for every guidance item and every set of FAQs, FAQs whose question
\* is null included, relatedFaqs is returned, sorted in ascending order of
\* question text, and a run over the same FAQs given in another order
\* returns the same relatedFaqs sequences.
C23_RelatedFaqsSortedInEveryOrder ==
  (pc = "enrichGuidanceWithFaqs" /\ result # <<>>) =>
    /\ result[1] # Thrown
    /\ \A gi \in 1..Len(args.guidanceItems) :
         AscendingByQuestion(result[1].v[gi].relatedFaqs.v)
    /\ SameInEveryOrder

\* what the sort gives when the related questions are distinct strings
C23_SortedForDistinctText ==
  (pc = "enrichGuidanceWithFaqs" /\ result # <<>> /\ RelatedQuestionsDistinctText) =>
    /\ result[1] # Thrown
    /\ \A gi \in 1..Len(args.guidanceItems) :
         AscendingByQuestion(result[1].v[gi].relatedFaqs.v)
    /\ SameInEveryOrder

\* no call ends in an exception
C23_NeverThrows ==
  ~(pc = "enrichGuidanceWithFaqs" /\ result = <<Thrown>>)

\* when every question is a string, the result is the same in every order
\* of the FAQs
C23_TextQuestionsSameInEveryOrder ==
  (pc = "enrichGuidanceWithFaqs" /\ Returned
     /\ \A i \in 1..Len(args.faqItems) : Get(args.faqItems[i], "question").t = "string")
  => SameInEveryOrder

\* ------------------------------------------------------------------------
\* Properties of the FAQ question and answer (under SpecFaq)
\* ------------------------------------------------------------------------
\* the answer text of an enhanced item; an omitted answer is the empty text
AnswerText(item) == IF "answer" \in DOMAIN item THEN item.answer.v ELSE <<>>

\* the trimmed text strictly after the heading line that /^#\s+(.+)$/m
\* matches first
TextAfterHeading(body) ==
  Trim(Substring(body, HeadingMatch(body).index + Len(HeadingMatch(body).text)))

\* the heading's text occurs in the body before the heading line
HeadingTextOccursEarlier(body) ==
  /\ HeadingMatch(body).found
  /\ IndexOf(body, HeadingMatch(body).text) < HeadingMatch(body).index

\* C24: for a body with a first-level heading line, question is the text of
\* the first such line and answer is the trimmed text strictly after that
\* line, also when the heading's text occurs earlier in the body inside
\* another line; for a body with no heading, question is null and answer is
\* the whole trimmed body.
C24_AnswerAfterHeadingLine ==
  (pc = "enhanceFaqItem" /\ result # <<>>) =>
    LET body == args.baseItem.rawMarkdown.v
    IN IF HeadingMatch(body).found
       THEN /\ result[1].question = Str(HeadingMatch(body).group)
            /\ AnswerText(result[1]) = TextAfterHeading(body)
       ELSE /\ result[1].question = Null
            /\ AnswerText(result[1]) = Trim(body)

\* the same for the bodies in which the heading's text does not occur
\* before the heading line
C24_AnswerAfterHeadingWhenTextIsNew ==
  (pc = "enhanceFaqItem" /\ result # <<>>
     /\ ~HeadingTextOccursEarlier(args.baseItem.rawMarkdown.v)) =>
    LET body == args.baseItem.rawMarkdown.v
    IN IF HeadingMatch(body).found
       THEN /\ result[1].question = Str(HeadingMatch(body).group)
            /\ AnswerText(result[1]) = TextAfterHeading(body)
       ELSE /\ result[1].question = Null
            /\ AnswerText(result[1]) = Trim(body)

\* the body '## a\n# a', with nothing after its heading line, has an empty
\* answer
C24_ExampleBody ==
  (pc = "enhanceFaqItem" /\ result # <<>>
     /\ args.baseItem.rawMarkdown.v = <<"#", "#", " ", "a", "\n", "#", " ", "a">>) =>
    AnswerText(result[1]) = <<>>

\* ------------------------------------------------------------------------
\* Properties of the order of lists (under SpecListOrder)
\* ------------------------------------------------------------------------
\* the integer a declared order stands for, 999 when none is declared
OrderValue(declared) ==
  IF declared = Undefined THEN 999
  ELSE IF declared.t = "number" THEN declared.v
  ELSE CHOOSE n \in 0..9 : NumberToString(n) = declared.v[1]

\* the position an entry of the input has in the sorted result
PositionOfKey(sorted, key) == CHOOSE i \in 1..Len(sorted) : sorted[i].key = key

\* the lists are displayed in ascending order, lists of equal order in the
\* order they were given in
DisplayedByOrder(given, sorted, zeroCounts) ==
  /\ Len(sorted) = Len(given)
  /\ \A i \in 1..Len(given) : \E j \in 1..Len(sorted) : sorted[j] = given[i]
  /\ \A i, j \in 1..Len(given) :
       LET oi == OrderValue(Get(given[i].config, "order"))
           oj == OrderValue(Get(given[j].config, "order"))
           vi == IF oi = 0 /\ ~zeroCounts THEN 999 ELSE oi
           vj == IF oj = 0 /\ ~zeroCounts THEN 999 ELSE oj
       IN (vi < vj \/ (vi = vj /\ i < j))
            => PositionOfKey(sorted, given[i].key) < PositionOfKey(sorted, given[j].key)

\* C25: the enhanced order of a list item is the integer value of its
\* declared order whenever one is declared, 0 included, and 999 only when
\* none is declared; lists are displayed in ascending order, lists of equal
\* order in discovery order.
C25_DeclaredOrderKept ==
  /\ (pc = "enhanceListItem" /\ result # <<>>) =>
       result[1].order = Num(OrderValue(Get(args.baseItem, "order")))
  /\ (pc = "sortedLists" /\ result # <<>>) =>
       DisplayedByOrder(args.curatedListsConfig, result[1].v, TRUE)

\* what the code does: the number 0 counts as no order in both places
C25_ZeroOrderIsDefault ==
  /\ (pc = "enhanceListItem" /\ result # <<>>) =>
       result[1].order =
         IF Get(args.baseItem, "order") = Num(0) THEN Num(999)
         ELSE Num(OrderValue(Get(args.baseItem, "order")))
  /\ (pc = "sortedLists" /\ result # <<>>) =>
       DisplayedByOrder(args.curatedListsConfig, result[1].v, FALSE)

\* ------------------------------------------------------------------------
\* Properties of the common fields of a base item (under SpecBase)
\* ------------------------------------------------------------------------
\* the names of the common fields
CommonFieldNames == {"filename", "category", "contentType", "rawMarkdown", "url"}

\* the document was read and has a non-empty front matter
HasFrontmatter(fileContent) ==
  /\ fileContent # Null
  /\ fileContent.frontmatter # Undefined
  /\ DOMAIN fileContent.frontmatter # {}

\* the common fields of the item are the arguments, the body and the url
\* the routing function gives
CommonFieldsFromArguments ==
  /\ result[1].filename = Str(args.filename)
  /\ result[1].category = Str(args.category)
  /\ result[1].contentType = Str(<<args.contentType>>)
  /\ result[1].rawMarkdown = Str(args.fileContent.content)
  /\ result[1].url = Str(createUrl(args.contentType, args.category, args.filename))

\* C26: for every document with non-empty front matter, whatever its keys
\* (keys named like a common field included), the base item has filename,
\* category and contentType equal to the parser's arguments, rawMarkdown
\* equal to the body and url equal to the routing function of
\* (contentType, category, filename).
C26_CommonFieldsFromArguments ==
  (pc = "parseBaseMarkdown" /\ result # <<>> /\ HasFrontmatter(args.fileContent))
    => CommonFieldsFromArguments

\* the same for the front matters that have no key named like a common
\* field
C26_CommonFieldsWhenNoKeyClashes ==
  (pc = "parseBaseMarkdown" /\ result # <<>> /\ HasFrontmatter(args.fileContent)
     /\ DOMAIN args.fileContent.frontmatter \cap CommonFieldNames = {})
    => CommonFieldsFromArguments

\* a key of the front matter named like a common field gives the field its
\* value
C26_FrontmatterWins ==
  (pc = "parseBaseMarkdown" /\ result # <<>> /\ HasFrontmatter(args.fileContent))
    => \A k \in DOMAIN args.fileContent.frontmatter :
         result[1][k] = args.fileContent.frontmatter[k]

\* ------------------------------------------------------------------------
\* Properties of the cross-references of the final structure (under
\* SpecCrossRef)
\* ------------------------------------------------------------------------
\* the FAQs, guidance items and lists of the final structure (arrays in
\* the flat structure, lookups by key in the keyed one)
FinalFaqs == {finalData.faq[k] : k \in DOMAIN finalData.faq}

FinalGuidance == {finalData.guidance[k] : k \in DOMAIN finalData.guidance}

FinalLists == {finalData.list[i] : i \in DOMAIN finalData.list}

\* a {question, url} entry denotes a FAQ of the final structure
DenotesFinalFaq(entry) ==
  \E faq \in FinalFaqs :
    Get(faq, "question") = entry.question /\ Get(faq, "url") = entry.url

ListItemsInFinal ==
  \A list \in FinalLists :
    "items" \in DOMAIN list =>
      \A n \in 1..Len(list.items.v) : DenotesFinalFaq(list.items.v[n])

RelatedFaqsInFinal ==
  \A guidance \in FinalGuidance :
    "relatedFaqs" \in DOMAIN guidance =>
      \A n \in 1..Len(guidance.relatedFaqs.v) : DenotesFinalFaq(guidance.relatedFaqs.v[n])

RelatedGuidanceInFinal ==
  \A faq \in FinalFaqs :
    "relatedGuidance" \in DOMAIN faq =>
      \E guidance \in FinalGuidance : guidance.filename = faq.relatedGuidance.filename

TableKeysInFinal ==
  "crossReferences" \in DOMAIN finalData =>
    \A key \in DOMAIN finalData.crossReferences.faqGuidanceLinks :
      /\ \E guidance \in FinalGuidance : GuidanceFileKey(guidance) = key
      /\ \A n \in 1..Len(finalData.crossReferences.faqGuidanceLinks[key]) :
           finalData.crossReferences.faqGuidanceLinks[key][n] \in DOMAIN finalData.faq

\* C27: in the structure a run returns, every {question, url} entry of a
\* list's items, every entry of a guidance item's relatedFaqs, every FAQ's
\* relatedGuidance and every key of the cross-reference table denotes an
\* item that passed validation and is in the final structure.
C27_NoReferenceToExcludedItem ==
  pc = "done" =>
    /\ ListItemsInFinal
    /\ RelatedFaqsInFinal
    /\ RelatedGuidanceInFinal
    /\ TableKeysInFinal

\* every parsed item passed validation, and the guidance that the FAQs
\* refer to was parsed
NothingExcluded ==
  /\ \A type \in DOMAIN parsedItemsByType :
       Len(validItemsByType[type]) = Len(parsedItemsByType[type])
  /\ (\E i \in 1..Len(parsedItemsByType["faq"]) :
        Truthy(Get(parsedItemsByType["faq"][i], "guidance-id")))
       => parsedItemsByType["guidance"] # <<>>

\* the same for the runs in which validation excludes nothing
C27_NoDanglingReferenceWhenAllValid ==
  (pc = "done" /\ NothingExcluded) =>
    /\ ListItemsInFinal
    /\ RelatedFaqsInFinal
    /\ RelatedGuidanceInFinal
    /\ TableKeysInFinal

\* each kind of reference on its own
C27_ListItems == pc = "done" => ListItemsInFinal

C27_RelatedFaqs == pc = "done" => RelatedFaqsInFinal

C27_RelatedGuidance == pc = "done" => RelatedGuidanceInFinal

C27_TableKeys == pc = "done" => TableKeysInFinal

\* ------------------------------------------------------------------------
\* Properties of the index of an invalid entry (under SpecPartition)
\* ------------------------------------------------------------------------
\* the 1-based positions of the failing items of the call, in input order
FailingInputPositions ==
  Ascending({i \in 1..Len(args.items) : ~args.validator[i].valid})

\* C28: every entry {item, errors, index} of the invalid list has index
\* equal to the (0-based) position of its item in the input array, the
\* position of the `context[index]` label given to the validator.
C28_IndexIsInputPosition ==
  (pc = "partitionByValidation" /\ Returned) =>
    \A k \in 1..Len(result[1].invalid) :
      result[1].invalid[k].index = FailingInputPositions[k] - 1

\* what the code gives: the (0-based) position of the entry in the invalid
\* list itself
C28_IndexIsPositionAmongInvalid ==
  (pc = "partitionByValidation" /\ Returned) =>
    \A k \in 1..Len(result[1].invalid) : result[1].invalid[k].index = k - 1

\* the same as C28 for the batches in which no passing item comes before a
\* failing one
C28_IndexWhenFailingItemsComeFirst ==
  (pc = "partitionByValidation" /\ Returned
     /\ \A i, j \in 1..Len(args.items) :
          (i < j /\ args.validator[i].valid) => args.validator[j].valid) =>
    \A k \in 1..Len(result[1].invalid) :
      result[1].invalid[k].index = FailingInputPositions[k] - 1

\* ------------------------------------------------------------------------
\* Properties of the keys of the final structure (under SpecStructure)
\* ------------------------------------------------------------------------
\* no key occurs twice in a list of keys
NoDuplicates(keys) == \A i, j \in 1..Len(keys) : i # j => keys[i] # keys[j]

DistinctFaqKeys ==
  \A i, j \in 1..Len(args.faq) :
    args.faq[i] # args.faq[j] => FaqKeyString(args.faq[i]) # FaqKeyString(args.faq[j])

DistinctGuidanceKeys ==
  \A i, j \in 1..Len(args.guidance) :
    args.guidance[i] # args.guidance[j]
      => GuidanceFileKey(args.guidance[i]) # GuidanceFileKey(args.guidance[j])

\* C29: no valid item is lost at assembly: distinct valid FAQ items get
\* distinct "category/slug" keys and distinct valid guidance items get
\* distinct filename keys, so the faq lookup has as many entries as there
\* are valid FAQs (the faqValid statistic), the guidance lookup as many as
\* there are valid guidance items, and no category lists a key twice.
C29_NoValidItemLost ==
  (pc = "buildFinalDataStructure" /\ Returned) =>
    /\ DistinctFaqKeys
    /\ DistinctGuidanceKeys
    /\ Cardinality(DOMAIN result[1].faq) = Len(args.faq)
    /\ Cardinality(DOMAIN result[1].guidance) = Len(args.guidance)
    /\ \A c \in DOMAIN result[1].categories : NoDuplicates(result[1].categories[c])

\* the same for the valid items that come from files whose names differ
\* within a category (FAQs) or altogether (guidance)
C29_NothingLostWhenNamesDiffer ==
  (pc = "buildFinalDataStructure" /\ Returned
     /\ (\A i, j \in 1..Len(args.faq) :
           i # j => \/ Get(args.faq[i], "category") # Get(args.faq[j], "category")
                    \/ Get(args.faq[i], "filename") # Get(args.faq[j], "filename"))
     /\ (\A m, n \in 1..Len(args.guidance) :
           m # n => Get(args.guidance[m], "filename") # Get(args.guidance[n], "filename"))) =>
    /\ Cardinality(DOMAIN result[1].faq) = Len(args.faq)
    /\ Cardinality(DOMAIN result[1].guidance) = Len(args.guidance)
    /\ \A c \in DOMAIN result[1].categories : NoDuplicates(result[1].categories[c])

\* distinct FAQs always get distinct keys
C29_FaqKeysDistinct ==
  (pc = "buildFinalDataStructure" /\ Returned) => DistinctFaqKeys

\* distinct guidance items always get distinct keys
C29_GuidanceKeysDistinct ==
  (pc = "buildFinalDataStructure" /\ Returned) => DistinctGuidanceKeys

\* ------------------------------------------------------------------------
\* Properties of the post-processing phase (under SpecCrossRef)
\* ------------------------------------------------------------------------
\* the FAQ post-processor has run and the next type's has not
FaqPostProcessorHasRun == pc = "applyPostProcessing" /\ cursor = 1

\* the guidance and list collections of the shared parsed data are the
\* parsed ones
SiblingCollectionsUntouched ==
  /\ postProcessedItems["guidance"] = parsedItemsByType["guidance"]
  /\ postProcessedItems["list"] = parsedItemsByType["list"]

\* no step of the post-processing phase changes the map of parsed items
ParsedItemsKept ==
  [][pc = "applyPostProcessing" => parsedItemsByType' = parsedItemsByType]_vars

\* C30: post-processing one content type writes only that type's own
\* collection: after the FAQ post-processor has run, the guidance and list
\* collections of the shared parsed data are as before it ran, and the map
\* of parsed items passed into applyPostProcessing is not changed by the
\* post-processing phase.
C30_PostProcessingWritesOwnCollection ==
  /\ [](FaqPostProcessorHasRun => SiblingCollectionsUntouched)
  /\ ParsedItemsKept

\* the same with the FAQ post-processor of lib/parsers/faq.js alone
C30_OwnCollectionWithPureFaqPostProcessor ==
  /\ []((FaqPostProcessorHasRun /\ args.registry = "parsers") => SiblingCollectionsUntouched)
  /\ ParsedItemsKept

\* with the FAQ post-processor of lib/types/faq.js, the guidance
\* collection of the shared parsed data is the enriched one whenever
\* guidance was parsed
C30_GuidanceReplacedByEnrichedGuidance ==
  (FaqPostProcessorHasRun /\ args.registry = "types") =>
    /\ postProcessedItems["list"] = parsedItemsByType["list"]
    /\ Len(postProcessedItems["guidance"]) = Len(parsedItemsByType["guidance"])
    /\ \A i \in 1..Len(postProcessedItems["guidance"]) :
         "relatedFaqs" \in DOMAIN postProcessedItems["guidance"][i]

====
